---------------------------- MODULE Spec2Model ----------------------------
(***************************************************************************)
(* Model of the orchestration core of ai-website-builder:                  *)
(*   - BaseAgent.run  (src/agents/base.py): the retry / parse / validate   *)
(*     loop around one provider call, checked under AgentSpec;             *)
(*   - BuildPipeline.run (src/orchestrator/pipeline.py): the six-stage     *)
(*     pipeline with the parallel fan-out and the Auto-Fix loop, checked   *)
(*     under Spec.                                                         *)
(* Strings of the program are modelled as sequences of chunks, so that     *)
(* f-string concatenation is sequence concatenation and "contains" is      *)
(* membership of a chunk.  Python's None is the record NoneVal.            *)
(***************************************************************************)
EXTENDS Integers, Sequences, FiniteSets, TLC

(***************************************************************************)
(* Bounds of the model                                                     *)
(***************************************************************************)
\* largest max_retries an Agent is configured with (the default is 3)
MaxRetries == 3
\* largest max_fix_iterations a pipeline is configured with (the default is 3)
MaxFixIterations == 3

(***************************************************************************)
(* Generic helpers                                                         *)
(***************************************************************************)
\* None as a value, and None as an error
NoneVal == [type |-> "None"]

NoError == [kind |-> "None"]

Range(s) == {s[i] : i \in 1..Len(s)}

Min(a, b) == IF a < b THEN a ELSE b

RECURSIVE Pow2(_)
Pow2(n) == IF n = 0 THEN 1 ELSE 2 * Pow2(n - 1)

\* the subsequence of the events of s whose field ev is kind
EventsOf(s, kind) == SelectSeq(s, LAMBDA e : e.ev = kind)

(***************************************************************************)
(* The provider (remote collaborator) as seen by an Agent                  *)
(***************************************************************************)
\* Raw texts a provider may return, by what the parsers make of them.
ResponseTexts ==
    { "not json",                 \* json.loads raises
      "[]",                       \* JSON, but not an object
      "{}",                       \* object without any required key
      "{score}",                  \* object with "score" only
      "{score,pass}",             \* object with "score" and "pass"
      "{score,pass,issues}" }     \* a complete review report

\* Usage metrics of one ProviderResponse (cost in integral units): a reply
\* that is not charged for, and one that is.
FreeUsage == [input_tokens |-> 0, output_tokens |-> 0, cost_usd |-> 0, latency_ms |-> 1]
PaidUsage == [input_tokens |-> 2, output_tokens |-> 1, cost_usd |-> 5, latency_ms |-> 3]

UsageProfiles == {FreeUsage, PaidUsage}

ProviderResponse ==
    { [text |-> t, input_tokens |-> u.input_tokens, output_tokens |-> u.output_tokens,
       cost_usd |-> u.cost_usd, latency_ms |-> u.latency_ms] :
         t \in ResponseTexts, u \in UsageProfiles }

(***************************************************************************)
(* Agent hooks: parse_output, validate_output, build_user_prompt           *)
(***************************************************************************)
AgentClasses == {"Base", "Reviewer"}

\* keys of the JSON object a text denotes
JsonKeys(text) ==
    CASE text = "{}" -> {}
      [] text = "{score}" -> {"score"}
      [] text = "{score,pass}" -> {"score", "pass"}
      [] text = "{score,pass,issues}" -> {"score", "pass", "issues"}
      [] OTHER -> {}

\* TRUE when parse_output raises on this text
ParseRaises(cls, text) ==
    IF cls = "Reviewer" THEN text = "not json" ELSE FALSE

StrVal(text) == [type |-> "str", text |-> text]

\* the value parse_output returns (defined where it does not raise)
parse_output(cls, text) ==
    IF cls = "Reviewer"
    THEN IF text = "[]" THEN [type |-> "list"]
         ELSE [type |-> "dict", keys |-> JsonKeys(text)]
    ELSE StrVal(text)

ParseOrFallback_None(cls, text) ==
    IF ParseRaises(cls, text) THEN [type |-> "None"] ELSE parse_output(cls, text)

\* the try/except around parse_output: the raw text when the parser raises
ParseOrFallback(cls, text) ==
    IF ParseRaises(cls, text) THEN StrVal(text) ELSE parse_output(cls, text)

\* validate_output: the pair (is_valid, error_msg)
validate_output(cls, parsed) ==
    IF cls = "Reviewer"
    THEN IF parsed.type # "dict"
           THEN [is_valid |-> FALSE, error_msg |-> "Output is not a JSON object"]
         ELSE IF "score" \notin parsed.keys
           THEN [is_valid |-> FALSE, error_msg |-> "Missing 'score' field"]
         ELSE IF "pass" \notin parsed.keys
           THEN [is_valid |-> FALSE, error_msg |-> "Missing 'pass' field"]
         ELSE IF "issues" \notin parsed.keys
           THEN [is_valid |-> FALSE, error_msg |-> "Missing 'issues' field"]
         ELSE [is_valid |-> TRUE, error_msg |-> ""]
    ELSE [is_valid |-> TRUE, error_msg |-> ""]

\* a keyword argument that was not passed: a text, a dict
NotGiven == "<not given>"
NoDict == [type |-> "not given"]

\* `kwargs.get(key, default)`, with absent the mark of the key not passed
KwargsGet(value, absent, default) == IF value = absent THEN default ELSE value

\* the truth value of a dict: it has a key
Truthy(dict) == dict.keys # {}

\* the text json.dumps(design_json, indent=2) makes of a dict
json_dumps_indent(dict) ==
    IF dict.keys = {} THEN "{}"
    ELSE IF dict.keys = {"colors"} THEN "{ colors: { primary: #fff } }"
    ELSE "{ ... }"

\* build_user_prompt(user_input, **kwargs): the initial request payload.
\* BaseAgent returns user_input; ReviewerAgent reviews the html keyword
\* argument (user_input when it is not passed) and appends the design
\* specification when the design keyword argument is a non-empty dict
build_user_prompt(cls, ui, kw) ==
    IF cls = "Reviewer"
    THEN LET reviewed == KwargsGet(kw.html, NotGiven, ui)
             design_json == KwargsGet(kw.design, NoDict, [type |-> "dict", keys |-> {}])
         IN <<"Review this HTML landing page: <html>", reviewed, "</html>">>
            \o (IF Truthy(design_json)
                THEN << "The intended design specification was:",
                        json_dumps_indent(design_json) >>
                ELSE <<>>)
    ELSE <<ui>>

\* run(user_input, **kwargs) without keyword arguments
NoKwargs == [html |-> NotGiven, design |-> NoDict]

\* the calls of run: the plain one, and for the Reviewer the pipeline's
\* (user_input "", html and design passed), html alone, design alone, and an
\* empty design
AgentCalls(cls) ==
    { [user_input |-> "INPUT", kwargs |-> NoKwargs] }
    \cup
    (IF cls = "Reviewer"
     THEN { [user_input |-> "",
             kwargs |-> [html |-> "<p>H</p>",
                         design |-> [type |-> "dict", keys |-> {"colors"}]]],
            [user_input |-> "INPUT",
             kwargs |-> [html |-> "<p>H</p>", design |-> NoDict]],
            [user_input |-> "INPUT",
             kwargs |-> [html |-> NotGiven,
                         design |-> [type |-> "dict", keys |-> {"colors"}]]],
            [user_input |-> "INPUT",
             kwargs |-> [html |-> NotGiven,
                         design |-> [type |-> "dict", keys |-> {}]]] }
     ELSE {})

FeedbackPrompt_Fresh(user_prompt, error_msg) ==
    << "CRITICAL: Your previous attempt had this issue: ", error_msg,
       "Please fix this and try again. Follow the instructions exactly." >>

FeedbackPrompt_Generic(user_prompt, error_msg) ==
    user_prompt \o
      << "CRITICAL: Your previous attempt had this issue: ",
         "Please fix this and try again. Follow the instructions exactly." >>

\* the corrective feedback appended to the payload after a validation failure
FeedbackPrompt(user_prompt, error_msg) ==
    user_prompt \o
      << "CRITICAL: Your previous attempt had this issue: ", error_msg,
         "Please fix this and try again. Follow the instructions exactly." >>

Accumulate_Overwrite(total, amount) == amount

\* `total += response.field`
Accumulate(total, amount) == total + amount

Backoff_FromZero(k) == Min(Pow2(k - 1), 8)

\* the wait before the next attempt
Backoff(k) == Min(Pow2(k), 8)

VARIABLES
    \* ---- BaseAgent.run ----
    agent_class,          \* which hooks the Agent has
    user_input,           \* the argument user_input of run
    kwargs,               \* the keyword arguments of run
    max_retries,          \* self.max_retries
    on_progress,          \* TRUE when an observer is registered
    a_pc,                 \* "loop" | "calling" | "overdue" | "returned"
    attempt,              \* the loop variable
    user_prompt,          \* the current request payload
    total_input_tokens, total_output_tokens, total_cost, total_latency,
    last_error,
    agent_result,         \* the AgentResult returned (NoneVal before)
    a_history             \* every progress notification, provider call,
                          \* provider reply and sleep of the call, in order

agent_vars == << agent_class, user_input, kwargs, max_retries, on_progress, a_pc, attempt, user_prompt,
                 total_input_tokens, total_output_tokens, total_cost, total_latency,
                 last_error, agent_result, a_history >>

VARIABLES
    \* ---- BuildPipeline.run ----
    auto_fix_enabled,     \* self.auto_fix_enabled
    max_fix_iterations,   \* self.max_fix_iterations
    p_pc,                 \* where run stands: "start" | "A" | "submit" |
                          \* "fanout" | "D" | "E" | "Dfix" | "F" | "returned"
    result,               \* the PipelineResult being filled in
    stages,               \* the local list `stages`
    html_code,            \* the local `html_code`
    fix_iteration,        \* the loop variable of the Auto-Fix loop
    review_result,        \* the local `review_result` (Unbound before the loop)
    copy_task,            \* the future of copywriter.run
    design_task,          \* the future of art_director.run
    running,              \* the Agents whose run is executing now
    notified,             \* every _update_stage(name, status) so far, in order
    invocations,          \* how many times each Agent's run was called
    spent_tokens,         \* tokens of every AgentResult produced so far
    spent_cost,           \* cost of every AgentResult produced so far
    verdicts,             \* what each reviewer.run so far came back with
    on_stage_update,      \* the constructor argument: "None" | "callable" |
                          \* "raising" (a callable that raises when called) |
                          \* "raising_bare" (one that raises an exception
                          \* constructed without a message)
    agent_configs,        \* the Agents whose entry of self.agent_configs names
                          \* a known provider and a non-empty api_key
    template,             \* the constructor argument template
    issue_keys,           \* "complete" when the Reviewer's model fills every
                          \* key of an issue, "partial" when it may omit some
    returns,              \* per Agent: how its last run ended and the parsed
                          \* output of its last successful run
    dev_request,          \* the user prompt of the last developer.run (empty
                          \* before the first)
    raised                \* the exception raised inside run (NoError if none)

pipeline_vars == << auto_fix_enabled, max_fix_iterations, p_pc, result, stages,
                    html_code, fix_iteration, review_result, copy_task,
                    design_task, running, notified, invocations,
                    spent_tokens, spent_cost, verdicts, on_stage_update,
                    agent_configs, template, issue_keys, returns, dev_request,
                    raised >>

VARIABLES
    \* ---- project storage ----
    files,                \* the files of PROJECTS_DIR: path -> JSON document
    saved,                \* the map the storage stands for: id -> project
                          \* as handed to save_project (observation)
    last_op               \* the last storage call, what it returned, and the
                          \* map before it (observation)

storage_vars == << files, saved, last_op >>

VARIABLES
    \* ---- the Gemini provider's rate limiter (providers/gemini.py) ----
    now,                  \* time.time(), in seconds
    last_call_time,       \* the module global _last_call_time
    callers,              \* per calling thread: where it stands in generate,
                          \* the clock value it read on entry, when its sleep
                          \* ends, its local `start`, the calls it has made
    request_starts        \* the `start` of every remote request, in the
                          \* order the requests began (observation)

gemini_vars == << now, last_call_time, callers, request_starts >>

vars == << agent_vars, pipeline_vars, storage_vars, gemini_vars >>

\* a map with no entries
EmptyMap == [k \in {} |-> NoneVal]

\* no project was ever stored (the state of the storage under the other
\* specifications)
StorageIdle ==
    /\ files = EmptyMap
    /\ saved = EmptyMap
    /\ last_op = [op |-> "none"]

\* the threads of the fan-out, each running one Agent on a Gemini provider
GeminiCallers == {"Copywriter", "Art Director"}

\* a thread outside generate: where it stands, the clock value it read on
\* entry, when its sleep ends, its local `start`, the calls it has made
IdleCaller == [pc |-> "idle", read |-> 0, wake |-> 0, start |-> 0, calls |-> 0]

\* no thread is in GeminiProvider.generate (the state of the rate limiter
\* under the other specifications)
GeminiIdle ==
    /\ now = 0
    /\ last_call_time = 0
    /\ callers = [t \in GeminiCallers |-> IdleCaller]
    /\ request_starts = <<>>

(***************************************************************************)
(* Data model of the pipeline                                              *)
(***************************************************************************)
AgentNames == {"Strategist", "Copywriter", "Art Director", "Developer",
               "Reviewer", "SEO Optimizer"}

Unbound == [type |-> "unbound"]

\* PipelineResult()
NewPipelineResult ==
    [ success |-> FALSE, html_code |-> StrVal(""), strategy |-> StrVal(""),
      copy |-> StrVal(""), design_json |-> [type |-> "dict", keys |-> {}],
      review_report |-> NoneVal, stages |-> <<>>, total_tokens |-> 0,
      total_cost_usd |-> 0, fix_iterations |-> 0, error |-> NoError ]

\* PipelineStage(name=..., agent_name=..., status=..., result=r, duration_ms=...)
PipelineStage(name, status, duration_ms) ==
    [name |-> name, agent_name |-> name, status |-> status,
     duration_ms |-> duration_ms]

IdleTask == [state |-> "idle", result |-> NoneVal]

\* an Agent whose run has not returned yet
NeverRan == [last |-> "none", good |-> NoneVal]

\* no pipeline run is in progress (the state of the pipeline under AgentSpec)
PipelineIdle ==
    /\ auto_fix_enabled = FALSE
    /\ max_fix_iterations = 0
    /\ p_pc = "idle"
    /\ result = NewPipelineResult
    /\ stages = <<>>
    /\ html_code = Unbound
    /\ fix_iteration = 0
    /\ review_result = Unbound
    /\ copy_task = IdleTask
    /\ design_task = IdleTask
    /\ running = {}
    /\ notified = <<>>
    /\ invocations = [a \in AgentNames |-> 0]
    /\ spent_tokens = 0
    /\ spent_cost = 0
    /\ verdicts = <<>>
    /\ on_stage_update = "None"
    /\ agent_configs = AgentNames
    /\ template = "landing"
    /\ issue_keys = "complete"
    /\ returns = [a \in AgentNames |-> NeverRan]
    /\ dev_request = <<>>
    /\ raised = NoError

(***************************************************************************)
(* BaseAgent.run                                                           *)
(***************************************************************************)
AgentInit ==
    /\ PipelineIdle
    /\ StorageIdle
    /\ GeminiIdle
    /\ agent_class \in AgentClasses
    /\ max_retries \in 1..MaxRetries
    /\ on_progress \in BOOLEAN
    /\ a_pc = "loop"
    /\ attempt = 1
    /\ \E call \in AgentCalls(agent_class) :
          /\ user_input = call.user_input
          /\ kwargs = call.kwargs
    /\ user_prompt = build_user_prompt(agent_class, user_input, kwargs)
    /\ total_input_tokens = 0
    /\ total_output_tokens = 0
    /\ total_cost = 0
    /\ total_latency = 0
    /\ last_error = [kind |-> "empty"]
    /\ agent_result = NoneVal
    /\ a_history = <<>>

\* no Agent run is in progress (the state of the Agent under Spec)
AgentIdle ==
    /\ agent_class = "Base"
    /\ user_input = ""
    /\ kwargs = NoKwargs
    /\ max_retries = 3
    /\ on_progress = FALSE
    /\ a_pc = "idle"
    /\ attempt = 0
    /\ user_prompt = <<>>
    /\ total_input_tokens = 0
    /\ total_output_tokens = 0
    /\ total_cost = 0
    /\ total_latency = 0
    /\ last_error = [kind |-> "empty"]
    /\ agent_result = NoneVal
    /\ a_history = <<>>

\* the AgentResult constructor
AgentResult(raw_text, parsed, success, error, attempts, tin, tout, cost, latency) ==
    [ raw_text |-> raw_text, parsed_output |-> parsed, success |-> success,
      error |-> error, attempts |-> attempts,
      total_input_tokens |-> tin, total_output_tokens |-> tout,
      total_cost_usd |-> cost, total_latency_ms |-> latency ]

AttemptsRemain_Inclusive == attempt <= max_retries

AttemptsRemain_OffByOne == attempt < max_retries - 1

\* `if attempt < self.max_retries`
AttemptsRemain == attempt < max_retries

ReturnSuccess_MaxAttempts(response, parsed, tin, tout, cost, latency) ==
    AgentResult(response.text, parsed, TRUE, NoError, max_retries,
                tin, tout, cost, latency)

\* the return of a validated attempt
ReturnSuccess(response, parsed, tin, tout, cost, latency) ==
    AgentResult(response.text, parsed, TRUE, NoError, attempt,
                tin, tout, cost, latency)

ReturnInvalid_Accepted(response, parsed, err, tin, tout, cost, latency) ==
    AgentResult(response.text, parsed, TRUE, NoError, attempt,
                tin, tout, cost, latency)

ReturnInvalid_Bare(response, parsed, err, tin, tout, cost, latency) ==
    AgentResult("", NoneVal, FALSE, err, attempt, tin, tout, cost, latency)

\* the return of the last attempt when its output fails validation
ReturnInvalid(response, parsed, err, tin, tout, cost, latency) ==
    AgentResult(response.text, parsed, FALSE, err, attempt,
                tin, tout, cost, latency)

\* the `except Exception` clause of the loop, and the return after the loop
\* when that was the last iteration; pre is the history up to the exception
HandleException(err, pre) ==
    /\ last_error' = err
    /\ IF AttemptsRemain
       THEN /\ a_history' = Append(pre, [ev |-> "sleep", attempt |-> attempt,
                                         seconds |-> Backoff(attempt)])
            /\ attempt' = attempt + 1
            /\ a_pc' = "loop"
            /\ agent_result' = agent_result
       ELSE /\ a_history' = pre
            /\ attempt' = attempt
            /\ a_pc' = "returned"
            /\ agent_result' =
                 AgentResult("", NoneVal, FALSE,
                             [kind |-> "exhausted", max_retries |-> max_retries,
                              last_error |-> err],
                             max_retries,
                             total_input_tokens, total_output_tokens,
                             total_cost, total_latency)

Notified_ZeroBased ==
    IF on_progress
    THEN Append(a_history, [ev |-> "progress", attempt |-> attempt - 1,
                            of |-> max_retries])
    ELSE a_history

\* `if on_progress: on_progress(f"Attempt {attempt}/{self.max_retries}...")`
Notified ==
    IF on_progress
    THEN Append(a_history, [ev |-> "progress", attempt |-> attempt, of |-> max_retries])
    ELSE a_history

\* loop head: the progress notification, then provider.generate is called
AgentCall ==
    /\ a_pc = "loop"
    /\ UNCHANGED << pipeline_vars, storage_vars, gemini_vars >>
    /\ a_history' = Append(Notified, [ev |-> "call", attempt |-> attempt,
                                      user_input |-> user_prompt])
    /\ a_pc' = "calling"
    /\ UNCHANGED << agent_class, user_input, kwargs, max_retries, on_progress, attempt, user_prompt,
                    total_input_tokens, total_output_tokens, total_cost,
                    total_latency, last_error, agent_result >>

\* loop head: the observer raises, which the loop's except clause catches
ObserverRaises ==
    /\ a_pc = "loop"
    /\ UNCHANGED << pipeline_vars, storage_vars, gemini_vars >>
    /\ on_progress
    /\ HandleException([kind |-> "exception", msg |-> "observer raised"],
                       Append(Notified, [ev |-> "raise", attempt |-> attempt]))
    /\ UNCHANGED << agent_class, user_input, kwargs, max_retries, on_progress, user_prompt,
                    total_input_tokens, total_output_tokens, total_cost,
                    total_latency >>

\* self.timeout_seconds elapse while provider.generate has not come back:
\* the call carries no timeout and nothing watches the clock, so run goes on
\* waiting for it
TimeoutElapses ==
    /\ a_pc = "calling"
    /\ UNCHANGED << pipeline_vars, storage_vars, gemini_vars >>
    /\ a_pc' = "overdue"
    /\ UNCHANGED << agent_class, user_input, kwargs, max_retries, on_progress, attempt, user_prompt,
                    total_input_tokens, total_output_tokens, total_cost,
                    total_latency, last_error, agent_result, a_history >>

\* provider.generate raises (transport, auth, quota, safety filter, empty reply)
ProviderFails ==
    /\ a_pc \in {"calling", "overdue"}
    /\ UNCHANGED << pipeline_vars, storage_vars, gemini_vars >>
    /\ HandleException([kind |-> "exception", msg |-> "provider raised"],
                       Append(a_history, [ev |-> "fail", attempt |-> attempt]))
    /\ UNCHANGED << agent_class, user_input, kwargs, max_retries, on_progress, user_prompt,
                    total_input_tokens, total_output_tokens, total_cost,
                    total_latency >>

\* provider.generate returns response: accumulate, parse, validate, decide
ProviderResponds(response) ==
    LET parsed == ParseOrFallback(agent_class, response.text)
        v == validate_output(agent_class, parsed)
        err == [kind |-> "validation", msg |-> v.error_msg]
        tin == Accumulate(total_input_tokens, response.input_tokens)
        tout == Accumulate(total_output_tokens, response.output_tokens)
        cost == Accumulate(total_cost, response.cost_usd)
        latency == Accumulate(total_latency, response.latency_ms)
        got == Append(a_history,
                      [ev |-> "response", attempt |-> attempt, response |-> response,
                       parsed |-> parsed, is_valid |-> v.is_valid,
                       error_msg |-> v.error_msg])
    IN
    /\ a_pc \in {"calling", "overdue"}
    /\ UNCHANGED << pipeline_vars, storage_vars, gemini_vars >>
    /\ total_input_tokens' = tin
    /\ total_output_tokens' = tout
    /\ total_cost' = cost
    /\ total_latency' = latency
    /\ IF ~v.is_valid
       THEN /\ last_error' = err
            /\ IF AttemptsRemain
               THEN /\ user_prompt' = FeedbackPrompt(user_prompt, v.error_msg)
                    /\ a_history' = Append(got, [ev |-> "sleep", attempt |-> attempt,
                                                 seconds |-> Backoff(attempt)])
                    /\ attempt' = attempt + 1
                    /\ a_pc' = "loop"
                    /\ agent_result' = agent_result
               ELSE /\ user_prompt' = user_prompt
                    /\ a_history' = got
                    /\ attempt' = attempt
                    /\ a_pc' = "returned"
                    /\ agent_result' =
                         ReturnInvalid(response, parsed, err, tin, tout, cost, latency)
       ELSE /\ last_error' = last_error
            /\ user_prompt' = user_prompt
            /\ a_history' = got
            /\ attempt' = attempt
            /\ a_pc' = "returned"
            /\ agent_result' =
                 ReturnSuccess(response, parsed, tin, tout, cost, latency)
    /\ UNCHANGED << agent_class, user_input, kwargs, max_retries, on_progress >>

AgentNext ==
    \/ AgentCall
    \/ ObserverRaises
    \/ TimeoutElapses
    \/ ProviderFails
    \/ \E response \in ProviderResponse : ProviderResponds(response)

AgentSpec == AgentInit /\ [][AgentNext]_vars


(***************************************************************************)
(* What an Agent's run hands back to the pipeline                          *)
(***************************************************************************)
\* the artifact the n-th run of an Agent produces (opaque to the pipeline)
Artifact(name, n) == [type |-> "artifact", by |-> name, version |-> n]

Issue(severity) ==
    [severity |-> severity, description |-> "d", fix_suggestion |-> "s"]

\* review reports that pass ReviewerAgent.validate_output
ReviewReports ==
    { [type |-> "dict", pass |-> TRUE,  issues |-> <<>>],
      [type |-> "dict", pass |-> TRUE,  issues |-> <<Issue("warning")>>],
      [type |-> "dict", pass |-> FALSE, issues |-> <<Issue("critical")>>],
      [type |-> "dict", pass |-> FALSE, issues |-> <<Issue("info"), Issue("warning")>>],
      [type |-> "dict", pass |-> FALSE, issues |-> <<Issue("info")>>],
      [type |-> "dict", pass |-> FALSE, issues |-> <<>>] }

\* reports that pass ReviewerAgent.validate_output (it looks at the three
\* top-level keys only) while an issue lacks its 'description'
PartialReports ==
    { [type |-> "dict", pass |-> FALSE,
       issues |-> << [severity |-> "critical", fix_suggestion |-> "s"] >>] }

\* the parsed outputs a successful run of the Agent can carry
ParsedOutputs(name) ==
    IF name = "Reviewer"
    THEN ReviewReports \cup (IF issue_keys = "partial" THEN PartialReports ELSE {})
    ELSE {Artifact(name, invocations[name])}

\* max_retries of the Agents the pipeline creates: _create_agent passes none,
\* so each has the default of BaseAgent.__init__
DefaultMaxRetries == 3

\* the Agents whose class overrides validate_output (StrategistAgent and
\* CopywriterAgent do not: every reply of the provider is accepted)
Validating == {"Art Director", "Developer", "Reviewer", "SEO Optimizer"}

\* a reply the Agent's validate_output rejects: its text, what parse_output
\* (or the fallback to the raw text) makes of it, and the message
RejectedReply(name) ==
    CASE name = "Reviewer" ->
           [text |-> "[]", parsed |-> [type |-> "list"],
            error_msg |-> "Output is not a JSON object"]
      [] name = "Art Director" ->
           [text |-> "bad", parsed |-> StrVal("bad"),
            error_msg |-> "Output is not a JSON object"]
      [] name = "Developer" ->
           [text |-> "bad", parsed |-> StrVal("bad"),
            error_msg |-> "Missing <!DOCTYPE html> declaration"]
      [] name = "SEO Optimizer" ->
           [text |-> "bad", parsed |-> StrVal("bad"),
            error_msg |-> "Missing closing </html> tag"]

\* what the provider does on one attempt: generate raises, or returns a reply
\* the Agent accepts or rejects, with its usage
Raised == [kind |-> "raise", usage |-> FreeUsage]
Accepted(u) == [kind |-> "accept", usage |-> u]
RejectedWith(u) == [kind |-> "reject", usage |-> u]

NoUsage == [input_tokens |-> 0, output_tokens |-> 0, cost_usd |-> 0, latency_ms |-> 0]

\* the `total_... += response....` statements
AddUsage(totals, u) ==
    [input_tokens |-> Accumulate(totals.input_tokens, u.input_tokens),
     output_tokens |-> Accumulate(totals.output_tokens, u.output_tokens),
     cost_usd |-> Accumulate(totals.cost_usd, u.cost_usd),
     latency_ms |-> Accumulate(totals.latency_ms, u.latency_ms)]

\* the place of the parsed output in the result of a run whose last reply
\* was accepted (StageResults puts each of ParsedOutputs there)
AcceptedOutput == [type |-> "accepted"]

\* BaseAgent.run of the Agent from attempt k on, with totals the sums so far
\* and script[k] what the provider does on attempt k
RECURSIVE RunFrom(_, _, _, _)
RunFrom(name, script, k, totals) ==
    LET reply == script[k]
        sums == AddUsage(totals, reply.usage)
    IN IF reply.kind = "raise"
         THEN IF k < DefaultMaxRetries
              THEN RunFrom(name, script, k + 1, totals)
              ELSE AgentResult("", NoneVal, FALSE,
                               [kind |-> "exhausted", max_retries |-> DefaultMaxRetries,
                                last_error |-> [kind |-> "exception",
                                                msg |-> "provider raised"]],
                               DefaultMaxRetries, totals.input_tokens,
                               totals.output_tokens, totals.cost_usd,
                               totals.latency_ms)
       ELSE IF reply.kind = "reject"
         THEN IF k < DefaultMaxRetries
              THEN RunFrom(name, script, k + 1, sums)
              ELSE AgentResult(RejectedReply(name).text, RejectedReply(name).parsed,
                               FALSE,
                               [kind |-> "validation",
                                msg |-> RejectedReply(name).error_msg],
                               k, sums.input_tokens, sums.output_tokens,
                               sums.cost_usd, sums.latency_ms)
       ELSE AgentResult("raw", AcceptedOutput, TRUE, NoError, k, sums.input_tokens,
                        sums.output_tokens, sums.cost_usd, sums.latency_ms)

\* what the provider does over the attempts of one Agent run: an accepted
\* reply at once, or failures on every attempt; then, for an Agent that
\* accepts every reply, a failure followed by an accepted reply, and for an
\* Agent that validates, a rejected reply followed by an accepted one and
\* rejected replies on every attempt, free or paid
ProviderScripts(name) ==
    { << Accepted(FreeUsage) >>,
      << Raised, Raised, Raised >> }
    \cup
    (IF name \in Validating
     THEN { << RejectedWith(PaidUsage), Accepted(PaidUsage) >>,
            << RejectedWith(FreeUsage), RejectedWith(FreeUsage),
               RejectedWith(FreeUsage) >>,
            << RejectedWith(PaidUsage), RejectedWith(PaidUsage),
               RejectedWith(PaidUsage) >> }
     ELSE { << Raised, Accepted(PaidUsage) >> })

\* per Agent, the results of BaseAgent.run under each of its scripts
RunResults ==
    [name \in AgentNames |->
        { RunFrom(name, script, 1, NoUsage) : script \in ProviderScripts(name) }]

\* the AgentResults a run of the Agent returns: those of RunResults, a
\* success carrying one of the parsed outputs of the Agent
StageResults(name) ==
    { IF r.success THEN [r EXCEPT !.parsed_output = parsed] ELSE r :
        parsed \in ParsedOutputs(name), r \in RunResults[name] }

(***************************************************************************)
(* The request payload of the Developer                                    *)
(***************************************************************************)
\* the argument of run
business_description == << StrVal("BUSINESS") >>

\* the names of config.TEMPLATES, and the sections of each
TemplateNames ==
    {"saas", "restaurant", "portfolio", "ecommerce", "agency", "landing"}

TEMPLATES(name) ==
    CASE name = "saas" ->
           << "hero", "features", "pricing", "testimonials", "faq", "cta", "footer" >>
      [] name = "restaurant" ->
           << "hero", "about", "gallery", "features", "testimonials", "contact",
              "footer" >>
      [] name = "portfolio" ->
           << "hero", "gallery", "about", "testimonials", "contact", "footer" >>
      [] name = "ecommerce" ->
           << "hero", "features", "gallery", "pricing", "testimonials", "faq",
              "footer" >>
      [] name = "agency" ->
           << "hero", "features", "about", "stats", "testimonials", "team", "cta",
              "footer" >>
      [] name = "landing" ->
           << "hero", "features", "about", "cta", "footer" >>

\* `self.template_info.get("sections", [])`, where template_info is
\* `TEMPLATES.get(template, TEMPLATES["landing"])`
TemplateSections ==
    IF template \in TemplateNames THEN TEMPLATES(template) ELSE TEMPLATES("landing")

\* json.dumps(design_json, indent=2)
JsonDumps(value) == [type |-> "json", of |-> value]

\* str.upper() of an issue severity
Upper(severity) ==
    CASE severity = "critical" -> "CRITICAL"
      [] severity = "warning" -> "WARNING"
      [] OTHER -> "INFO"

\* one line of fix_instructions; issue['description'] must exist
FixLine(issue) ==
    [type |-> "fix_line", severity |-> Upper(issue.severity),
     description |-> issue.description,
     fix_suggestion |-> IF "fix_suggestion" \in DOMAIN issue
                        THEN issue.fix_suggestion ELSE ""]

RECURSIVE FixInstructions(_)
FixInstructions(issues) ==
    IF issues = <<>> THEN <<>>
    ELSE << FixLine(Head(issues)) >> \o FixInstructions(Tail(issues))

\* the f-string fix_prompt of the Auto-Fix loop
FixPrompt(issues, html) ==
    << StrVal("Fix the following issues in this HTML:") >>
    \o FixInstructions(issues)
    \o << StrVal("Current HTML:"), html,
          StrVal("Return the COMPLETE fixed HTML.") >>

\* the first component of utils.components.COMPONENTS (in the order of the
\* dict) that lists the section, "none" when no component does
ComponentFor(section) ==
    CASE section = "hero" -> "hero_gradient"
      [] section = "features" -> "features_cards"
      [] section = "pricing" -> "pricing_cards"
      [] section = "testimonials" -> "testimonials_cards"
      [] section = "faq" -> "faq_accordion"
      [] section = "stats" -> "stats_counter"
      [] section = "cta" -> "cta_gradient"
      [] section = "contact" -> "contact_form"
      [] section = "footer" -> "footer_multi_column"
      [] section = "gallery" -> "gallery_masonry"
      [] section = "team" -> "team_grid"
      [] section = "blog" -> "blog_cards"
      [] section \in {"logos", "partners"} -> "logo_cloud"
      [] section = "comparison" -> "comparison_table"
      [] OTHER -> "none"

\* get_component_hints_for_sections: one hint per section that has a
\* component, in the order of the sections (the empty text when none has)
RECURSIVE get_component_hints_for_sections(_)
get_component_hints_for_sections(sections) ==
    IF sections = <<>> THEN <<>>
    ELSE (IF ComponentFor(Head(sections)) = "none" THEN <<>>
          ELSE << ComponentFor(Head(sections)) >>)
         \o get_component_hints_for_sections(Tail(sections))

\* DeveloperAgent.build_user_prompt(user_input, **kwargs), with kw the map
\* of the keyword arguments passed
DeveloperPrompt(ui, kw) ==
    LET copy_result == IF "copy" \in DOMAIN kw THEN kw.copy ELSE StrVal("")
        design_json == IF "design" \in DOMAIN kw THEN kw.design
                       ELSE [type |-> "dict", keys |-> {}]
        business_desc == IF "business_description" \in DOMAIN kw
                         THEN kw.business_description ELSE ui
        sections == IF "sections" \in DOMAIN kw THEN kw.sections ELSE <<>>
        component_hints == IF sections # <<>>
                           THEN get_component_hints_for_sections(sections)
                           ELSE <<>>
    IN << StrVal("Here is the website copy:"), copy_result,
          StrVal("Here is the design specification (JSON):"), JsonDumps(design_json),
          StrVal("The business description:") >>
       \o business_desc
       \o (IF component_hints # <<>>
           THEN << StrVal("Here are reference component patterns"),
                   [type |-> "component_hints", hints |-> component_hints] >>
           ELSE <<>>)
       \o << StrVal("ADDITIONAL QUALITY REQUIREMENTS") >>

(***************************************************************************)
(* BuildPipeline.run                                                       *)
(***************************************************************************)
\* what the constructor was given
Nominal ==
    [on_stage_update |-> "callable", agent_configs |-> AgentNames,
     template |-> "landing", issue_keys |-> "complete"]

\* the nominal construction, and each way of departing from it in one respect:
\* no sink, a sink that raises, one Agent whose configuration names an
\* unknown provider or an empty api_key, a Reviewer model that omits issue
\* keys, another template of TEMPLATES, a template name TEMPLATES lacks
Environments ==
    { Nominal,
      [Nominal EXCEPT !.on_stage_update = "None"],
      [Nominal EXCEPT !.on_stage_update = "raising"],
      [Nominal EXCEPT !.on_stage_update = "raising_bare"],
      [Nominal EXCEPT !.issue_keys = "partial"],
      [Nominal EXCEPT !.template = "saas"],
      [Nominal EXCEPT !.template = "no-such-template"] }
    \cup { [Nominal EXCEPT !.agent_configs = AgentNames \ {a}] : a \in AgentNames }

Started(env) ==
    /\ AgentIdle
    /\ StorageIdle
    /\ GeminiIdle
    /\ on_stage_update = env.on_stage_update
    /\ agent_configs = env.agent_configs
    /\ template = env.template
    /\ issue_keys = env.issue_keys
    /\ auto_fix_enabled \in BOOLEAN
    /\ max_fix_iterations \in 0..MaxFixIterations
    /\ p_pc = "start"
    /\ result = NewPipelineResult
    /\ stages = <<>>
    /\ html_code = Unbound
    /\ fix_iteration = 0
    /\ review_result = Unbound
    /\ copy_task = IdleTask
    /\ design_task = IdleTask
    /\ running = {}
    /\ notified = <<>>
    /\ invocations = [a \in AgentNames |-> 0]
    /\ spent_tokens = 0
    /\ spent_cost = 0
    /\ verdicts = <<>>
    /\ returns = [a \in AgentNames |-> NeverRan]
    /\ dev_request = <<>>
    /\ raised = NoError

\* a pipeline constructed with a sink, a usable configuration for every Agent
\* and a Reviewer model that fills every issue key
Init == Started(Nominal)

\* a pipeline constructed in any of the Environments
FaultInit == \E env \in Environments : Started(env)

Tokens(r) == r.total_input_tokens + r.total_output_tokens

\* result.total_tokens += ...; result.total_cost_usd += ...
AddTotals(res, r) ==
    [res EXCEPT !.total_tokens = @ + Tokens(r),
                !.total_cost_usd = @ + r.total_cost_usd]

\* result.error = f"{name} failed: {r.error}"
StageError(name, r) == [kind |-> "stage_failed", stage |-> name, error |-> r.error]

Called(name) == [invocations EXCEPT ![name] = @ + 1]

\* what a reviewer.run came back with, as the loop reads it
Verdict(r) ==
    IF ~r.success THEN "error"
    ELSE IF r.parsed_output.pass THEN "pass"
    ELSE IF \E i \in 1..Len(r.parsed_output.issues) :
              r.parsed_output.issues[i].severity \in {"critical", "warning"}
      THEN "fail_actionable"
    ELSE "fail_other"

\* an AgentResult has been produced: the bookkeeping of what the run spent,
\* of what the Reviewer said and of how each Agent's last run ended
Produced(name, r) ==
    /\ spent_tokens' = spent_tokens + Tokens(r)
    /\ spent_cost' = spent_cost + r.total_cost_usd
    /\ verdicts' = IF name = "Reviewer" THEN Append(verdicts, Verdict(r)) ELSE verdicts
    /\ returns' = [returns EXCEPT ![name] =
                     IF r.success THEN [last |-> "ok", good |-> r.parsed_output]
                     ELSE [@ EXCEPT !.last = "failed"]]

Halt_Silent(name, r) ==
    /\ notified' = notified
    /\ result' = [result EXCEPT !.error = StageError(name, r)]
    /\ p_pc' = "returned"
    /\ running' = {}
    /\ UNCHANGED << stages, html_code, fix_iteration, review_result, invocations,
                    raised >>

\* `return result` after a stage failed
Halt(name, r) ==
    /\ notified' = Append(notified, <<name, "error">>)
    /\ result' = [result EXCEPT !.error = StageError(name, r)]
    /\ p_pc' = "returned"
    /\ running' = {}
    /\ UNCHANGED << stages, html_code, fix_iteration, review_result, invocations,
                    raised >>

\* the exceptions run can meet
SinkError == [kind |-> "exception", msg |-> "raised by on_stage_update"]
BareSinkError == [kind |-> "exception", msg |-> ""]
ConfigError(name) == [kind |-> "exception", msg |-> "ValueError", agent |-> name]
UnboundLocalError == [kind |-> "exception", msg |-> "UnboundLocalError: review_result"]
KeyError == [kind |-> "exception", msg |-> "KeyError: 'description'"]

Raise_Propagates(res, stgs, notes, e) ==
    /\ result' = res
    /\ stages' = stgs
    /\ notified' = notes
    /\ p_pc' = "crashed"
    /\ running' = {}
    /\ invocations' = invocations
    /\ raised' = e

\* an exception e is raised inside the try block with res, stgs, notes the
\* values reached: `except Exception as e` records it and run returns
Raise(res, stgs, notes, e) ==
    /\ result' = [res EXCEPT !.error = e, !.stages = stgs]
    /\ stages' = stgs
    /\ notified' = notes
    /\ p_pc' = "returned"
    /\ running' = {}
    /\ invocations' = invocations
    /\ raised' = e

ReviewPassed_Ignored(report) == FALSE

\* `report.get("pass", False)`
ReviewPassed(report) == report.pass

critical_issues_All(report) == report.issues

\* the issues of a report the Developer is asked to fix
critical_issues(report) ==
    SelectSeq(report.issues, LAMBDA issue : issue.severity \in {"critical", "warning"})

\* Stage 6 up to seo.run: the sink is told, the Agent is created and called
ToSEO(res, stgs, notes) ==
    LET told == Append(notes, <<"SEO Optimizer", "running">>)
    IN IF "SEO Optimizer" \notin agent_configs
       THEN Raise(res, stgs, told, ConfigError("SEO Optimizer"))
       ELSE /\ result' = res
            /\ stages' = stgs
            /\ notified' = told
            /\ p_pc' = "F"
            /\ running' = {"SEO Optimizer"}
            /\ invocations' = Called("SEO Optimizer")
            /\ raised' = raised

\* the statements after the Auto-Fix loop up to seo.run (the Reviewer stage is
\* appended from the local review_result, which no statement has bound when
\* the loop body never ran), with res, stgs, notes, rr the values reached
AfterLoop(res, stgs, notes, rr) ==
    IF rr = Unbound
    THEN Raise(res, stgs, notes, UnboundLocalError)
    ELSE ToSEO(res,
               Append(stgs, PipelineStage("Reviewer", "done", rr.total_latency_ms)),
               Append(notes, <<"Reviewer", "done">>))

\* Stage 1 is dispatched: the sink is told, the Agent is created and called
StartStrategist ==
    LET told == Append(notified, <<"Strategist", "running">>)
    IN
    /\ p_pc = "start"
    /\ IF on_stage_update \in {"raising", "raising_bare"}
         THEN Raise(result, stages, told,
                    IF on_stage_update = "raising" THEN SinkError ELSE BareSinkError)
       ELSE IF "Strategist" \notin agent_configs
         THEN Raise(result, stages, told, ConfigError("Strategist"))
       ELSE /\ notified' = told
            /\ running' = {"Strategist"}
            /\ invocations' = Called("Strategist")
            /\ p_pc' = "A"
            /\ UNCHANGED << result, stages, raised >>
    /\ UNCHANGED << on_stage_update, agent_configs, template, issue_keys,
                    auto_fix_enabled, max_fix_iterations, html_code,
                    fix_iteration, review_result, copy_task, design_task,
                    spent_tokens, spent_cost, verdicts, returns, dev_request >>
    /\ UNCHANGED << agent_vars, storage_vars, gemini_vars >>

WithStrategy_Dropped(res, r) == res

\* `result.strategy = strat_result.parsed_output`
WithStrategy(res, r) == [res EXCEPT !.strategy = r.parsed_output]

\* strategist.run returns; on success both fan-out Agents are created and
\* copywriter.run is submitted to the executor (the first executor.submit)
StrategistReturns(r) ==
    LET res == AddTotals(WithStrategy(result, r), r)
        stgs == Append(stages, PipelineStage("Strategist", "done", r.total_latency_ms))
        told == notified \o << <<"Strategist", "done">>,
                               <<"Copywriter", "running">>,
                               <<"Art Director", "running">> >>
    IN
    /\ p_pc = "A"
    /\ Produced("Strategist", r)
    /\ IF ~r.success
         THEN /\ Halt("Strategist", r)
              /\ UNCHANGED << copy_task, design_task >>
       ELSE IF "Copywriter" \notin agent_configs
         THEN /\ Raise(res, stgs, told, ConfigError("Copywriter"))
              /\ UNCHANGED << copy_task, design_task, html_code, fix_iteration,
                              review_result >>
       ELSE IF "Art Director" \notin agent_configs
         THEN /\ Raise(res, stgs, told, ConfigError("Art Director"))
              /\ UNCHANGED << copy_task, design_task, html_code, fix_iteration,
                              review_result >>
       ELSE /\ result' = res
            /\ stages' = stgs
            /\ notified' = told
            /\ copy_task' = [state |-> "submitted", result |-> NoneVal]
            /\ design_task' = design_task
            /\ running' = {}
            /\ p_pc' = "submit"
            /\ UNCHANGED << html_code, fix_iteration, review_result, invocations,
                            raised >>
    /\ UNCHANGED << on_stage_update, agent_configs, template, issue_keys,
                    auto_fix_enabled, max_fix_iterations, dev_request >>
    /\ UNCHANGED << agent_vars, storage_vars, gemini_vars >>

\* the main thread makes the second executor.submit, of art_director.run;
\* the worker thread of the first may have begun, or finished, by then
ArtDirectorSubmitted ==
    /\ p_pc = "submit"
    /\ design_task.state = "idle"
    /\ design_task' = [state |-> "submitted", result |-> NoneVal]
    /\ p_pc' = "fanout"
    /\ UNCHANGED << on_stage_update, agent_configs, template, issue_keys,
                    auto_fix_enabled, max_fix_iterations, result, stages,
                    html_code, fix_iteration, review_result, copy_task,
                    running, notified, invocations, spent_tokens, spent_cost,
                    verdicts, returns, dev_request, raised >>
    /\ UNCHANGED << agent_vars, storage_vars, gemini_vars >>

\* a worker thread of the executor begins copywriter.run
CopywriterStarts ==
    /\ p_pc \in {"submit", "fanout"}
    /\ copy_task.state = "submitted"
    /\ copy_task' = [copy_task EXCEPT !.state = "running"]
    /\ running' = running \cup {"Copywriter"}
    /\ invocations' = Called("Copywriter")
    /\ UNCHANGED << on_stage_update, agent_configs, template, issue_keys,
                    auto_fix_enabled, max_fix_iterations, p_pc, result, stages,
                    html_code, fix_iteration, review_result, design_task,
                    notified, spent_tokens, spent_cost, verdicts, returns,
                    dev_request, raised >>
    /\ UNCHANGED << agent_vars, storage_vars, gemini_vars >>

\* copywriter.run returns in its worker thread
CopywriterReturns(r) ==
    /\ p_pc \in {"submit", "fanout"}
    /\ copy_task.state = "running"
    /\ copy_task' = [state |-> "done", result |-> r]
    /\ running' = running \ {"Copywriter"}
    /\ Produced("Copywriter", r)
    /\ UNCHANGED << on_stage_update, agent_configs, template, issue_keys,
                    auto_fix_enabled, max_fix_iterations, p_pc, result, stages,
                    html_code, fix_iteration, review_result, design_task,
                    notified, invocations, dev_request, raised >>
    /\ UNCHANGED << agent_vars, storage_vars, gemini_vars >>

\* a worker thread of the executor begins art_director.run
ArtDirectorStarts ==
    /\ p_pc = "fanout"
    /\ design_task.state = "submitted"
    /\ design_task' = [design_task EXCEPT !.state = "running"]
    /\ running' = running \cup {"Art Director"}
    /\ invocations' = Called("Art Director")
    /\ UNCHANGED << on_stage_update, agent_configs, template, issue_keys,
                    auto_fix_enabled, max_fix_iterations, p_pc, result, stages,
                    html_code, fix_iteration, review_result, copy_task,
                    notified, spent_tokens, spent_cost, verdicts, returns,
                    dev_request, raised >>
    /\ UNCHANGED << agent_vars, storage_vars, gemini_vars >>

\* art_director.run returns in its worker thread
ArtDirectorReturns(r) ==
    /\ p_pc = "fanout"
    /\ design_task.state = "running"
    /\ design_task' = [state |-> "done", result |-> r]
    /\ running' = running \ {"Art Director"}
    /\ Produced("Art Director", r)
    /\ UNCHANGED << on_stage_update, agent_configs, template, issue_keys,
                    auto_fix_enabled, max_fix_iterations, p_pc, result, stages,
                    html_code, fix_iteration, review_result, copy_task,
                    notified, invocations, dev_request, raised >>
    /\ UNCHANGED << agent_vars, storage_vars, gemini_vars >>

FailedStage_CopyOnly(copy_result, design_result) ==
    IF ~copy_result.success THEN "Copywriter" ELSE "none"

\* the two `if not ... .success` checks after the `with` block, in their order
FailedStage(copy_result, design_result) ==
    IF ~copy_result.success THEN "Copywriter"
    ELSE IF ~design_result.success THEN "Art Director"
    ELSE "none"

\* the statements from the fan-out results to developer.run, when neither
\* check halted the run
DispatchDeveloper(copy_result, design_result) ==
    LET res == AddTotals(AddTotals(
                 [result EXCEPT !.copy = copy_result.parsed_output,
                                !.design_json = design_result.parsed_output],
                 copy_result), design_result)
        stgs == stages \o
                 << PipelineStage("Copywriter", "done", copy_result.total_latency_ms),
                    PipelineStage("Art Director", "done", design_result.total_latency_ms) >>
        told == notified \o << <<"Copywriter", "done">>,
                               <<"Art Director", "done">>,
                               <<"Developer", "running">> >>
    IN IF "Developer" \notin agent_configs
       THEN /\ Raise(res, stgs, told, ConfigError("Developer"))
            /\ dev_request' = dev_request
            /\ UNCHANGED << html_code, fix_iteration, review_result >>
       ELSE /\ result' = res
            /\ stages' = stgs
            /\ notified' = told
            /\ running' = {"Developer"}
            /\ invocations' = Called("Developer")
            /\ dev_request' =
                 DeveloperPrompt(business_description,
                                 [copy |-> res.copy, design |-> res.design_json,
                                  business_description |-> business_description,
                                  sections |-> TemplateSections])
            /\ p_pc' = "D"
            /\ UNCHANGED << html_code, fix_iteration, review_result, raised >>

Join_Unjoined ==
    /\ p_pc = "fanout"
    /\ copy_task.state = "done"
    /\ copy_task.result.success
    /\ result' = AddTotals([result EXCEPT !.copy = copy_task.result.parsed_output],
                           copy_task.result)
    /\ stages' = Append(stages, PipelineStage("Copywriter", "done",
                                              copy_task.result.total_latency_ms))
    /\ notified' = notified \o << <<"Copywriter", "done">>,
                                  <<"Developer", "running">> >>
    /\ running' = running \cup {"Developer"}
    /\ invocations' = Called("Developer")
    /\ p_pc' = "D"
    /\ UNCHANGED << on_stage_update, agent_configs, template, issue_keys,
                    auto_fix_enabled, max_fix_iterations, copy_task, design_task,
                    spent_tokens, spent_cost, verdicts, returns, html_code,
                    fix_iteration, review_result, raised, dev_request >>
    /\ UNCHANGED << agent_vars, storage_vars, gemini_vars >>

Join_CopyOnly ==
    LET copy_result == copy_task.result
    IN
    /\ p_pc = "fanout"
    /\ copy_task.state = "done"
    /\ IF ~copy_result.success
       THEN /\ Halt("Copywriter", copy_result)
            /\ dev_request' = dev_request
       ELSE DispatchDeveloper(copy_result,
                              AgentResult("", NoneVal, TRUE, NoError, 0, 0, 0, 0, 0))
    /\ UNCHANGED << on_stage_update, agent_configs, template, issue_keys,
                    auto_fix_enabled, max_fix_iterations, copy_task, design_task,
                    spent_tokens, spent_cost, verdicts, returns >>
    /\ UNCHANGED << agent_vars, storage_vars, gemini_vars >>

\* both futures have a result: the main thread leaves the `with` block, checks
\* the two results and, when both succeeded, dispatches the Developer
Join ==
    LET copy_result == copy_task.result
        design_result == design_task.result
        failed == FailedStage(copy_result, design_result)
    IN
    /\ p_pc = "fanout"
    /\ copy_task.state = "done"
    /\ design_task.state = "done"
    /\ IF failed # "none"
       THEN /\ Halt(failed, IF failed = "Copywriter" THEN copy_result
                            ELSE design_result)
            /\ dev_request' = dev_request
       ELSE DispatchDeveloper(copy_result, design_result)
    /\ UNCHANGED << on_stage_update, agent_configs, template, issue_keys,
                    auto_fix_enabled, max_fix_iterations, copy_task, design_task,
                    spent_tokens, spent_cost, verdicts, returns >>
    /\ UNCHANGED << agent_vars, storage_vars, gemini_vars >>

\* developer.run returns; on success the Auto-Fix loop is entered (its first
\* reviewer.run is called) or, when the loop is disabled, seo.run is called
DeveloperReturns(r) ==
    LET res == AddTotals(result, r)
        stgs == Append(stages, PipelineStage("Developer", "done", r.total_latency_ms))
        notes == Append(notified, <<"Developer", "done">>)
        told == Append(notes, <<"Reviewer", "running">>)
    IN
    /\ p_pc = "D"
    /\ Produced("Developer", r)
    /\ IF ~r.success
       THEN Halt("Developer", r)
       ELSE /\ html_code' = r.parsed_output
            /\ fix_iteration' = 0
            /\ review_result' = review_result
            /\ IF ~auto_fix_enabled
                 THEN ToSEO(res, stgs, notes)
               ELSE IF "Reviewer" \notin agent_configs
                 THEN Raise(res, stgs, told, ConfigError("Reviewer"))
               ELSE IF max_fix_iterations > 0
                 THEN /\ result' = res
                      /\ stages' = stgs
                      /\ notified' = told
                      /\ running' = {"Reviewer"}
                      /\ invocations' = Called("Reviewer")
                      /\ p_pc' = "E"
                      /\ raised' = raised
               ELSE AfterLoop(res, stgs, told, review_result)
    /\ UNCHANGED << on_stage_update, agent_configs, template, issue_keys,
                    auto_fix_enabled, max_fix_iterations, copy_task, design_task,
                    dev_request >>
    /\ UNCHANGED << agent_vars, storage_vars, gemini_vars >>

ReviewFailure_Halts(counted, r) ==
    /\ result' = [counted EXCEPT !.error = StageError("Reviewer", r)]
    /\ stages' = stages
    /\ notified' = Append(notified, <<"Reviewer", "error">>)
    /\ p_pc' = "returned"
    /\ running' = {}
    /\ invocations' = invocations
    /\ raised' = raised

\* `if not review_result.success: break`, with counted the PipelineResult
\* after the review's totals were added
ReviewFailure(counted, r) == AfterLoop(counted, stages, notified, r)

\* reviewer.run returns inside the Auto-Fix loop
ReviewerReturns(r) ==
    LET counted == AddTotals(result, r)
        reported == [counted EXCEPT !.review_report = r.parsed_output,
                                    !.fix_iterations = fix_iteration + 1]
        told == Append(notified, <<"Developer", "running">>)
    IN
    /\ p_pc = "E"
    /\ Produced("Reviewer", r)
    /\ review_result' = r
    /\ html_code' = html_code
    /\ fix_iteration' = fix_iteration
    /\ IF ~r.success
         THEN ReviewFailure(counted, r) /\ dev_request' = dev_request
       ELSE IF ReviewPassed(r.parsed_output)
         THEN AfterLoop(reported, stages, notified, r) /\ dev_request' = dev_request
       ELSE IF critical_issues(r.parsed_output) = <<>>
         THEN AfterLoop(reported, stages, notified, r) /\ dev_request' = dev_request
       ELSE IF \E k \in 1..Len(critical_issues(r.parsed_output)) :
                 "description" \notin DOMAIN critical_issues(r.parsed_output)[k]
         THEN Raise(reported, stages, told, KeyError) /\ dev_request' = dev_request
       ELSE /\ result' = reported
            /\ stages' = stages
            /\ notified' = told
            /\ running' = {"Developer"}
            /\ invocations' = Called("Developer")
            /\ dev_request' =
                 DeveloperPrompt(FixPrompt(critical_issues(r.parsed_output), html_code),
                                 [copy |-> reported.copy,
                                  design |-> reported.design_json,
                                  business_description |-> business_description])
            /\ p_pc' = "Dfix"
            /\ raised' = raised
    /\ UNCHANGED << on_stage_update, agent_configs, template, issue_keys,
                    auto_fix_enabled, max_fix_iterations, copy_task, design_task >>
    /\ UNCHANGED << agent_vars, storage_vars, gemini_vars >>

Adopt_Always(r, current) == r.parsed_output

\* `if r.success: html_code = r.parsed_output`
Adopt(r, current) == IF r.success THEN r.parsed_output ELSE current

LoopContinues_OneMore == fix_iteration + 1 <= max_fix_iterations

\* `for fix_iteration in range(self.max_fix_iterations)`: another iteration
\* follows the current one
LoopContinues == fix_iteration + 1 < max_fix_iterations

FixReported_Skipped(notes) == notes

\* `self._update_stage("Developer", "done")` closing a loop iteration
FixReported(notes) == Append(notes, <<"Developer", "done">>)

FixReturns_FailureHalts(r) ==
    LET res == IF r.success THEN AddTotals(result, r) ELSE result
        notes == FixReported(notified)
    IN
    /\ p_pc = "Dfix"
    /\ Produced("Developer", r)
    /\ html_code' = Adopt(r, html_code)
    /\ review_result' = review_result
    /\ IF ~r.success
       THEN /\ fix_iteration' = fix_iteration
            /\ result' = [result EXCEPT !.error = StageError("Developer", r)]
            /\ stages' = stages
            /\ notified' = Append(notified, <<"Developer", "error">>)
            /\ running' = {}
            /\ invocations' = invocations
            /\ p_pc' = "returned"
            /\ raised' = raised
       ELSE IF LoopContinues
       THEN /\ fix_iteration' = fix_iteration + 1
            /\ result' = res
            /\ stages' = stages
            /\ notified' = notes
            /\ running' = {"Reviewer"}
            /\ invocations' = Called("Reviewer")
            /\ p_pc' = "E"
            /\ raised' = raised
       ELSE /\ fix_iteration' = fix_iteration
            /\ AfterLoop(res, stages, notes, review_result)
    /\ UNCHANGED << on_stage_update, agent_configs, template, issue_keys,
                    auto_fix_enabled, max_fix_iterations, copy_task, design_task,
                    dev_request >>
    /\ UNCHANGED << agent_vars, storage_vars, gemini_vars >>

\* the developer.run of a fix returns; the loop goes on or is exhausted
FixReturns(r) ==
    LET res == IF r.success THEN AddTotals(result, r) ELSE result
        notes == FixReported(notified)
    IN
    /\ p_pc = "Dfix"
    /\ Produced("Developer", r)
    /\ html_code' = Adopt(r, html_code)
    /\ review_result' = review_result
    /\ IF LoopContinues
       THEN /\ fix_iteration' = fix_iteration + 1
            /\ result' = res
            /\ stages' = stages
            /\ notified' = notes
            /\ running' = {"Reviewer"}
            /\ invocations' = Called("Reviewer")
            /\ p_pc' = "E"
            /\ raised' = raised
       ELSE /\ fix_iteration' = fix_iteration
            /\ AfterLoop(res, stages, notes, review_result)
    /\ UNCHANGED << on_stage_update, agent_configs, template, issue_keys,
                    auto_fix_enabled, max_fix_iterations, copy_task, design_task,
                    dev_request >>
    /\ UNCHANGED << agent_vars, storage_vars, gemini_vars >>

Completed_IfLastStageDone(res, final_html, stgs) ==
    [res EXCEPT !.html_code = final_html,
                !.success = (stgs[Len(stgs)].status = "done"),
                !.stages = stgs]

\* the Final Result statements
Completed(res, final_html, stgs) ==
    [res EXCEPT !.html_code = final_html, !.success = TRUE, !.stages = stgs]

\* seo.run returns and the PipelineResult is completed
SEOReturns(r) ==
    LET final_html == Adopt(r, html_code)
        stgs == IF r.success
                THEN Append(stages, PipelineStage("SEO Optimizer", "done",
                                                  r.total_latency_ms))
                ELSE Append(stages, PipelineStage("SEO Optimizer", "error", 0))
        res == IF r.success THEN AddTotals(result, r) ELSE result
    IN
    /\ p_pc = "F"
    /\ Produced("SEO Optimizer", r)
    /\ html_code' = final_html
    /\ stages' = stgs
    /\ notified' = Append(notified, <<"SEO Optimizer", "done">>)
    /\ result' = Completed(res, final_html, stgs)
    /\ running' = {}
    /\ p_pc' = "returned"
    /\ UNCHANGED << on_stage_update, agent_configs, template, issue_keys,
                    auto_fix_enabled, max_fix_iterations, fix_iteration,
                    review_result, copy_task, design_task, invocations,
                    dev_request, raised >>
    /\ UNCHANGED << agent_vars, storage_vars, gemini_vars >>

Next ==
    \/ StartStrategist
    \/ \E r \in StageResults("Strategist") : StrategistReturns(r)
    \/ ArtDirectorSubmitted
    \/ CopywriterStarts
    \/ \E r \in StageResults("Copywriter") : CopywriterReturns(r)
    \/ ArtDirectorStarts
    \/ \E r \in StageResults("Art Director") : ArtDirectorReturns(r)
    \/ Join
    \/ \E r \in StageResults("Developer") : DeveloperReturns(r)
    \/ \E r \in StageResults("Reviewer") : ReviewerReturns(r)
    \/ \E r \in StageResults("Developer") : FixReturns(r)
    \/ \E r \in StageResults("SEO Optimizer") : SEOReturns(r)

\* runs of a pipeline constructed nominally
Spec == Init /\ [][Next]_vars

\* runs of a pipeline constructed in any of the Environments
FaultSpec == FaultInit /\ [][Next]_vars

(***************************************************************************)
(* Project storage (storage/__init__.py)                                   *)
(***************************************************************************)
\* number of distinct project ids in play
MaxProjects == 2

\* project ids as app.py makes them (str(uuid.uuid4())): plain names with no
\* path separator
ProjectIds == { "project-" \o ToString(n) : n \in 1..MaxProjects }

\* Python values of the fields
IntVal(n) == [type |-> "int", n |-> n]
FloatVal(n) == [type |-> "float", n |-> n]
DictVal(items) == [type |-> "dict", items |-> items]

\* the fields of the SavedProject dataclass, and those without a default
ProjectFields ==
    {"id", "name", "business_description", "template", "html_code", "strategy",
     "copy", "design_json", "review_report", "total_tokens", "total_cost_usd",
     "created_at", "updated_at"}

RequiredFields == {"id", "name", "business_description", "template", "html_code"}

\* the defaults of the optional fields; time.time() is 0 in the model
FieldDefault(f) ==
    CASE f \in {"strategy", "copy"} -> StrVal("")
      [] f = "design_json" -> DictVal(EmptyMap)
      [] f = "review_report" -> NoneVal
      [] f = "total_tokens" -> IntVal(0)
      [] OTHER -> FloatVal(0)

\* the SavedProject constructor called with keyword arguments kw (a map
\* from names to values); a missing required argument or an unknown one is
\* a TypeError
SavedProject(kw) ==
    IF RequiredFields \subseteq DOMAIN kw /\ DOMAIN kw \subseteq ProjectFields
    THEN [f \in ProjectFields |->
             IF f \in DOMAIN kw THEN kw[f] ELSE FieldDefault(f)]
    ELSE [type |-> "TypeError"]

\* the projects handed to save_project under one id: a first build and a
\* rebuilt page, with and without a review report and a design
SavedProjects(id) ==
    { SavedProject(
          [f \in RequiredFields \cup {"design_json", "review_report", "total_tokens"} |->
              CASE f = "id" -> StrVal(id)
                [] f = "name" -> StrVal("Test Project")
                [] f = "business_description" -> StrVal("A test business")
                [] f = "template" -> StrVal("landing")
                [] f = "html_code" -> StrVal(html)
                [] f = "design_json" -> design
                [] f = "review_report" -> report
                [] OTHER -> IntVal(IF report = NoneVal THEN 0 ELSE 1200)]) :
        html \in {"<html></html>", "<html>v2</html>"},
        design \in { DictVal(EmptyMap),
                     DictVal([k \in {"colors"} |->
                                 DictVal([c \in {"primary"} |-> StrVal("#000")])]) },
        report \in { NoneVal, DictVal([k \in {"score"} |-> IntVal(85)]) } }

\* dataclasses.asdict: the dict of the fields, dict values copied
asdict(project) == DictVal([f \in ProjectFields |-> project[f]])

\* json.dumps(value, indent=2, ensure_ascii=False): the JSON document of a
\* value made of None, str, int, float and dict with str keys
RECURSIVE json_dumps(_)
json_dumps(value) ==
    CASE value.type = "None" -> [json |-> "null"]
      [] value.type = "str" -> [json |-> "string", chars |-> value.text]
      [] value.type = "int" -> [json |-> "number", digits |-> value.n, point |-> FALSE]
      [] value.type = "float" -> [json |-> "number", digits |-> value.n, point |-> TRUE]
      [] value.type = "dict" ->
           [json |-> "object",
            members |-> [k \in DOMAIN value.items |-> json_dumps(value.items[k])]]

\* json.loads of such a document
RECURSIVE json_loads(_)
json_loads(doc) ==
    CASE doc.json = "null" -> NoneVal
      [] doc.json = "string" -> StrVal(doc.chars)
      [] doc.json = "number" ->
           IF doc.point THEN FloatVal(doc.digits) ELSE IntVal(doc.digits)
      [] doc.json = "object" ->
           DictVal([k \in DOMAIN doc.members |-> json_loads(doc.members[k])])

FilePath_Fixed(project_id) == << "projects", "project.json" >>

\* PROJECTS_DIR / f"{project_id}.json"
FilePath(project_id) == << "projects", project_id \o ".json" >>

\* m with key k set to v, and m without key k
MapSet(m, k, v) == [x \in DOMAIN m \cup {k} |-> IF x = k THEN v ELSE m[x]]
MapDel(m, k) == [x \in DOMAIN m \ {k} |-> m[x]]

\* what load_project returns for project_id on the files fs
load_project(fs, project_id) ==
    IF FilePath(project_id) \notin DOMAIN fs
    THEN NoneVal
    ELSE SavedProject(json_loads(fs[FilePath(project_id)]).items)

StorageInit ==
    /\ AgentIdle
    /\ PipelineIdle
    /\ GeminiIdle
    /\ StorageIdle

\* save_project(project)
SaveProject(project) ==
    /\ files' = MapSet(files, FilePath(project.id.text), json_dumps(asdict(project)))
    /\ saved' = MapSet(saved, project.id.text, project)
    /\ last_op' = [op |-> "save", id |-> project.id.text,
                   ret |-> FilePath(project.id.text), before |-> saved]
    /\ UNCHANGED << agent_vars, pipeline_vars, gemini_vars >>

\* load_project(project_id)
LoadProject(project_id) ==
    /\ last_op' = [op |-> "load", id |-> project_id,
                   ret |-> load_project(files, project_id), before |-> saved]
    /\ UNCHANGED << files, saved, agent_vars, pipeline_vars, gemini_vars >>

\* delete_project(project_id)
DeleteProject(project_id) ==
    /\ IF FilePath(project_id) \in DOMAIN files
       THEN /\ files' = MapDel(files, FilePath(project_id))
            /\ last_op' = [op |-> "delete", id |-> project_id, ret |-> TRUE,
                           before |-> saved]
       ELSE /\ files' = files
            /\ last_op' = [op |-> "delete", id |-> project_id, ret |-> FALSE,
                           before |-> saved]
    /\ saved' = MapDel(saved, project_id)
    /\ UNCHANGED << agent_vars, pipeline_vars, gemini_vars >>

StorageNext ==
    \/ \E id \in ProjectIds : \E project \in SavedProjects(id) : SaveProject(project)
    \/ \E id \in ProjectIds : LoadProject(id)
    \/ \E id \in ProjectIds : DeleteProject(id)

\* any sequence of save_project, load_project and delete_project
StorageSpec == StorageInit /\ [][StorageNext]_vars

(***************************************************************************)
(* The rate limiter of GeminiProvider.generate (providers/gemini.py)       *)
(***************************************************************************)
\* _MIN_INTERVAL_SECONDS
MIN_INTERVAL_SECONDS == 4

\* the last second of the clock, and the generate calls each thread makes
MaxClock == 10
MaxGenerateCalls == 2

\* the process has made no Gemini call yet (_last_call_time = 0.0) or made
\* its last one (the Strategist's) up to MIN_INTERVAL_SECONDS ago; the clock
\* reads the interval at least
GeminiInit ==
    /\ AgentIdle
    /\ PipelineIdle
    /\ StorageIdle
    /\ now = MIN_INTERVAL_SECONDS
    /\ last_call_time \in 0..MIN_INTERVAL_SECONDS
    /\ callers = [t \in GeminiCallers |-> IdleCaller]
    /\ request_starts = <<>>

GeminiFrame == UNCHANGED << agent_vars, pipeline_vars, storage_vars >>

\* one second passes; a thread may be preempted for any time at any point
Tick ==
    /\ now < MaxClock
    /\ now' = now + 1
    /\ UNCHANGED << last_call_time, callers, request_starts >>
    /\ GeminiFrame

\* `elapsed = time.time() - _last_call_time` and the decision to wait
WaitFor(elapsed) ==
    IF elapsed < MIN_INTERVAL_SECONDS THEN MIN_INTERVAL_SECONDS - elapsed ELSE 0

\* a thread enters generate and reads the clock: the `time.time()` of
\* `elapsed = time.time() - _last_call_time`
GenerateEnters(t) ==
    /\ callers[t].pc = "idle"
    /\ callers[t].calls < MaxGenerateCalls
    /\ callers' = [callers EXCEPT ![t].pc = "entered", ![t].read = now]
    /\ UNCHANGED << now, last_call_time, request_starts >>
    /\ GeminiFrame

\* the thread reads the global, computes elapsed from the clock value it read
\* and either calls time.sleep(wait) or goes on
RateLimitChecked(t) ==
    LET wait == WaitFor(callers[t].read - last_call_time)
    IN
    /\ callers[t].pc = "entered"
    /\ callers' = [callers EXCEPT ![t].pc = IF wait > 0 THEN "sleeping" ELSE "ready",
                                  ![t].wake = now + wait,
                                  ![t].read = 0]
    /\ UNCHANGED << now, last_call_time, request_starts >>
    /\ GeminiFrame

\* time.sleep(wait) returns, not before the time asked for
SleepReturns(t) ==
    /\ callers[t].pc = "sleeping"
    /\ now >= callers[t].wake
    /\ callers' = [callers EXCEPT ![t].pc = "ready"]
    /\ UNCHANGED << now, last_call_time, request_starts >>
    /\ GeminiFrame

\* `start = time.time()`
StartRead(t) ==
    /\ callers[t].pc = "ready"
    /\ callers' = [callers EXCEPT ![t].pc = "stamped", ![t].start = now]
    /\ UNCHANGED << now, last_call_time, request_starts >>
    /\ GeminiFrame

\* `_last_call_time = start`
LastCallStored(t) ==
    /\ callers[t].pc = "stamped"
    /\ last_call_time' = callers[t].start
    /\ callers' = [callers EXCEPT ![t].pc = "stored"]
    /\ UNCHANGED << now, request_starts >>
    /\ GeminiFrame

\* generate_content is called: the remote request begins
RequestStarts(t) ==
    /\ callers[t].pc = "stored"
    /\ request_starts' = Append(request_starts, callers[t].start)
    /\ callers' = [callers EXCEPT ![t].pc = "requesting", ![t].start = 0]
    /\ UNCHANGED << now, last_call_time >>
    /\ GeminiFrame

\* generate_content returns or raises: generate is left
RequestEnds(t) ==
    /\ callers[t].pc = "requesting"
    /\ callers' = [callers EXCEPT ![t].pc = "idle", ![t].calls = @ + 1]
    /\ UNCHANGED << now, last_call_time, request_starts >>
    /\ GeminiFrame

GeminiNext ==
    \/ Tick
    \/ \E t \in GeminiCallers : GenerateEnters(t)
    \/ \E t \in GeminiCallers : RateLimitChecked(t)
    \/ \E t \in GeminiCallers : SleepReturns(t)
    \/ \E t \in GeminiCallers : StartRead(t)
    \/ \E t \in GeminiCallers : LastCallStored(t)
    \/ \E t \in GeminiCallers : RequestStarts(t)
    \/ \E t \in GeminiCallers : RequestEnds(t)

\* the two fan-out threads calling generate on the shared global
GeminiSpec == GeminiInit /\ [][GeminiNext]_vars

(***************************************************************************)
(* Properties of BaseAgent.run (checked under AgentSpec)                   *)
(***************************************************************************)
Calls == EventsOf(a_history, "call")
Responses == EventsOf(a_history, "response")
Fails == EventsOf(a_history, "fail")
Raises == EventsOf(a_history, "raise")

RECURSIVE SumField(_, _)
SumField(rs, f) ==
    IF rs = <<>> THEN 0 ELSE Head(rs).response[f] + SumField(Tail(rs), f)

\* the run is over and the provider call of every attempt failed
EveryCallFailed ==
    /\ a_pc = "returned"
    /\ Responses = <<>>
    /\ Raises = <<>>

\* C1: an Agent whose provider call fails on every attempt makes exactly
\* max_retries provider calls and returns success=False with
\* attempts=max_retries.
C1_AttemptBound ==
    EveryCallFailed =>
        /\ Len(Calls) = max_retries
        /\ Len(Fails) = max_retries
        /\ agent_result.success = FALSE
        /\ agent_result.attempts = max_retries

C1_Witness ==
    /\ EveryCallFailed
    /\ max_retries = 3
    /\ Len(Fails) = 3

\* C2: when the provider answers and validation passes on attempt k, run
\* returns success=True with attempts=k, and that answer is the last thing
\* that happens in the call: no provider call follows it.
C2_EarlySuccess ==
    \A i \in 1..Len(a_history) :
        (a_history[i].ev = "response" /\ a_history[i].is_valid) =>
            /\ i = Len(a_history)
            /\ a_pc = "returned"
            /\ agent_result.success = TRUE
            /\ agent_result.attempts = a_history[i].attempt
            /\ \A j \in 1..Len(Calls) : Calls[j].attempt <= a_history[i].attempt

C2_Witness ==
    /\ a_pc = "returned"
    /\ agent_result.success = TRUE
    /\ agent_result.attempts = 2
    /\ max_retries = 3
    /\ Len(Responses) = 1
    /\ Len(Fails) = 1

\* C3: when validation fails on attempt k < max_retries with reason R, the
\* payload of the provider call of attempt k+1 contains R verbatim.
C3_FeedbackRetry ==
    \A i \in 1..Len(Responses) : \A j \in 1..Len(Calls) :
        ( /\ ~Responses[i].is_valid
          /\ Responses[i].attempt < max_retries
          /\ Calls[j].attempt = Responses[i].attempt + 1 ) =>
            Responses[i].error_msg \in Range(Calls[j].user_input)

\* validation fails on attempt 1 and passes on attempt 2
C3_Witness ==
    /\ a_pc = "returned"
    /\ agent_result.success = TRUE
    /\ Len(Responses) = 2
    /\ Responses[1].attempt = 1
    /\ ~Responses[1].is_valid
    /\ Responses[1].error_msg = "Missing 'pass' field"
    /\ Responses[2].attempt = 2
    /\ Len(Calls) = 2

\* C4: on every return path the token, cost and latency totals of the
\* AgentResult are the sums over every provider response received.
C4_CostAdditivity ==
    a_pc = "returned" =>
        /\ agent_result.total_input_tokens = SumField(Responses, "input_tokens")
        /\ agent_result.total_output_tokens = SumField(Responses, "output_tokens")
        /\ agent_result.total_cost_usd = SumField(Responses, "cost_usd")
        /\ agent_result.total_latency_ms = SumField(Responses, "latency_ms")

\* two paid responses rejected by the validator, then a failing provider call
C4_Witness ==
    /\ a_pc = "returned"
    /\ agent_result.error.kind = "exhausted"
    /\ Len(Responses) = 2
    /\ agent_result.total_cost_usd = 10
    /\ agent_result.total_input_tokens = 4

\* C5: when the provider answers on the final attempt but validation fails,
\* run returns success=False with attempts=max_retries, the validation
\* reason as error, and the parsed value and raw text of that attempt.
C5_FinalValidationFailure ==
    \A i \in 1..Len(Responses) :
        (Responses[i].attempt = max_retries /\ ~Responses[i].is_valid) =>
            /\ a_pc = "returned"
            /\ agent_result.success = FALSE
            /\ agent_result.attempts = max_retries
            /\ agent_result.error =
                 [kind |-> "validation", msg |-> Responses[i].error_msg]
            /\ agent_result.parsed_output = Responses[i].parsed
            /\ agent_result.raw_text = Responses[i].response.text

\* the final attempt of three is answered with an object lacking "issues"
C5_Witness ==
    /\ a_pc = "returned"
    /\ max_retries = 3
    /\ Len(Responses) >= 1
    /\ Responses[Len(Responses)].attempt = 3
    /\ Responses[Len(Responses)].error_msg = "Missing 'issues' field"
    /\ agent_result.parsed_output = [type |-> "dict", keys |-> {"score", "pass"}]


(***************************************************************************)
(* Properties of BuildPipeline.run (checked under Spec)                    *)
(***************************************************************************)
\* developer.run calls made by the Auto-Fix loop
Reinvocations ==
    IF invocations["Developer"] = 0 THEN 0 ELSE invocations["Developer"] - 1

\* the Auto-Fix loop statement has been reached
LoopReached == <<"Reviewer", "running">> \in Range(notified)

TotalsMatchSpent ==
    /\ result.total_tokens = spent_tokens
    /\ result.total_cost_usd = spent_cost

\* C6: on every run that returns success=True, the token and cost totals of
\* the PipelineResult equal the sums over every AgentResult produced during
\* the run (reviews, fixes whether they succeeded or not, a failed SEO stage).
C6_TotalsOnSuccess ==
    (p_pc = "returned" /\ result.success) => TotalsMatchSpent

\* C7: on every run halted by a failing Strategist, Copywriter, Art Director
\* or Developer, the totals include every AgentResult produced up to and
\* including the failing stage.
C7_TotalsOnHalt ==
    (p_pc = "returned" /\ result.error.kind = "stage_failed") => TotalsMatchSpent

\* C8: the fix_iterations of the PipelineResult equals the number of
\* developer.run calls the Auto-Fix loop made (0 when the loop is disabled or
\* the first review passes, 2 when two reviews fail and the third passes).
C8_FixIterationsCountFixes ==
    p_pc = "returned" => result.fix_iterations = Reinvocations

\* C9: with the loop enabled and every review succeeding with a failing
\* verdict and an actionable issue, the loop makes exactly
\* max_fix_iterations developer.run calls, then the run goes on to the SEO
\* stage and returns success=True.
C9_LoopBound ==
    ( /\ p_pc = "returned"
      /\ auto_fix_enabled
      /\ LoopReached
      /\ \A i \in 1..Len(verdicts) : verdicts[i] = "fail_actionable" ) =>
        /\ Reinvocations = max_fix_iterations
        /\ invocations["SEO Optimizer"] = 1
        /\ result.success

\* C10: when the first review succeeds with verdict pass, the Developer is
\* never re-invoked and the Reviewer is invoked exactly once.
C10_LoopEarlyExit ==
    (Len(verdicts) >= 1 /\ verdicts[1] = "pass") =>
        /\ Reinvocations = 0
        /\ invocations["Reviewer"] = 1
        /\ Len(verdicts) = 1
        /\ p_pc \in {"F", "returned"}

\* a first review that passes while listing a warning, in a finished run
C10_Witness ==
    /\ p_pc = "returned"
    /\ result.success
    /\ max_fix_iterations = 3
    /\ verdicts = <<"pass">>
    /\ result.review_report.issues # <<>>
    /\ invocations["Developer"] = 1


\* an Agent's last run returned success=False
Failed(name) == returns[name].last = "failed"

\* how many times the sink was told <<name, status>>
Told(name, status) ==
    Cardinality({k \in 1..Len(notified) : notified[k] = <<name, status>>})

\* C11: in every interleaving of the two fan-out tasks, developer.run is not
\* called before copywriter.run and art_director.run have both returned
\* their AgentResult.
C11_JoinBeforeDeveloper ==
    (invocations["Developer"] > 0 \/ "Developer" \in running) =>
        /\ copy_task.state = "done" /\ copy_task.result # NoneVal
        /\ design_task.state = "done" /\ design_task.result # NoneVal
        /\ returns["Copywriter"].last # "none"
        /\ returns["Art Director"].last # "none"

\* the Developer is running after both fan-out tasks returned a success
C11_Witness ==
    /\ p_pc = "D"
    /\ "Developer" \in running
    /\ copy_task.result.success
    /\ design_task.result.success
    /\ invocations["Copywriter"] = 1
    /\ invocations["Art Director"] = 1

\* C12: when seo.run returns success=False, the run still returns
\* success=True with no error.
C12_BestEffortSEO ==
    Failed("SEO Optimizer") =>
        /\ p_pc = "returned"
        /\ result.success
        /\ result.error = NoError

\* a finished run whose SEO stage failed
C12_Witness ==
    /\ p_pc = "returned"
    /\ Failed("SEO Optimizer")
    /\ invocations["SEO Optimizer"] = 1
    /\ result.stages[Len(result.stages)].status = "error"
    /\ result.success

\* C13: on every successful run, the html_code of the PipelineResult is the
\* parsed output of seo.run when it succeeded, and otherwise the parsed output
\* of the last developer.run that succeeded.
C13_FinalDeliverable ==
    (p_pc = "returned" /\ result.success) =>
        result.html_code = IF returns["SEO Optimizer"].last = "ok"
                           THEN returns["SEO Optimizer"].good
                           ELSE returns["Developer"].good

\* a successful run whose SEO stage failed after a successful fix was
\* followed by a failed one: the deliverable is the second Developer output
C13_Witness ==
    /\ p_pc = "returned"
    /\ result.success
    /\ Failed("SEO Optimizer")
    /\ Failed("Developer")
    /\ invocations["Developer"] = 3
    /\ result.html_code = Artifact("Developer", 2)

\* the Strategist's run, or the first run of the Developer, returned
\* success=False
HaltedAt(name) ==
    /\ Failed(name)
    /\ invocations[name] = 1

\* the Agents that run after the named one
Later(name) ==
    IF name = "Strategist" THEN AgentNames \ {"Strategist"}
    ELSE {"Reviewer", "SEO Optimizer"}

\* C14: when strategist.run or the first developer.run returns
\* success=False, the sink is told error for that stage exactly once and
\* nothing after it, no further Agent is invoked, and the run returns
\* success=False with an error naming that stage.
C14_HaltOnStageFailure ==
    \A name \in {"Strategist", "Developer"} :
        HaltedAt(name) =>
            /\ p_pc = "returned"
            /\ Told(name, "error") = 1
            /\ notified[Len(notified)] = <<name, "error">>
            /\ running = {}
            /\ \A later \in Later(name) : invocations[later] = 0
            /\ ~result.success
            /\ result.error.kind = "stage_failed"
            /\ result.error.stage = name

\* a run halted by the failure of the first developer.run
C14_Witness ==
    /\ HaltedAt("Developer")
    /\ p_pc = "returned"
    /\ result.error.stage = "Developer"
    /\ Told("Developer", "running") = 1

\* copywriter.run or art_director.run has returned success=False
FanoutFailed ==
    \/ (copy_task.state = "done" /\ ~copy_task.result.success)
    \/ (design_task.state = "done" /\ ~design_task.result.success)

\* C15: when copywriter.run or art_director.run (or both) returns
\* success=False, the Developer, the Reviewer and the SEO Optimizer are never
\* invoked, neither the copy nor the design appears in the PipelineResult,
\* and the run returns success=False with an error naming a stage that failed.
C15_FanoutFailure ==
    FanoutFailed =>
        /\ \A name \in {"Developer", "Reviewer", "SEO Optimizer"} :
               invocations[name] = 0
        /\ result.copy = NewPipelineResult.copy
        /\ result.design_json = NewPipelineResult.design_json
        /\ result.html_code = NewPipelineResult.html_code
        /\ ~result.success
        /\ p_pc \in {"submit", "fanout", "returned"}
        /\ p_pc = "returned" =>
             /\ result.error.kind = "stage_failed"
             /\ result.error.stage \in {"Copywriter", "Art Director"}
             /\ Failed(result.error.stage)

\* a run halted by the Art Director's failure although the Copywriter succeeded
C15_Witness ==
    /\ p_pc = "returned"
    /\ copy_task.state = "done" /\ copy_task.result.success
    /\ design_task.state = "done" /\ ~design_task.result.success
    /\ result.error.stage = "Art Director"


(***************************************************************************)
(* Properties of BuildPipeline.run in any environment (under FaultSpec)    *)
(***************************************************************************)
\* C16: run never raises to its caller: an exception raised during the run
\* (an Agent that cannot be constructed, a fault while processing an Agent's
\* output, a raising sink) is caught, and run returns a PipelineResult with
\* success=False and that exception as its error.
C16_NeverRaises ==
    /\ p_pc # "crashed"
    /\ raised # NoError =>
         /\ p_pc = "returned"
         /\ ~result.success
         /\ result.error = raised

\* a run ended by the KeyError of a review issue without a description, after
\* four stages had completed
C16_Witness ==
    /\ p_pc = "returned"
    /\ raised = KeyError
    /\ result.error = KeyError
    /\ Len(result.stages) = 4
    /\ notified[Len(notified)] = <<"Developer", "running">>

\* C17: the sink has no effect on what the pipeline decides: whatever sink
\* was given (none, a callable, a callable that raises), a run whose Agents
\* can all be constructed invokes the Strategist as it does with any other
\* sink, and no run returns the sink's own exception as its error.
C17_SinkHasNoEffect ==
    p_pc = "returned" =>
        /\ result.error # SinkError
        /\ agent_configs = AgentNames => invocations["Strategist"] = 1

(***************************************************************************)
(* Further properties of BuildPipeline.run (under Spec)                    *)
(***************************************************************************)
\* C18: whenever the Auto-Fix loop has called developer.run, the user prompt
\* of that call contains the current html_code and the fix line of every
\* critical or warning issue of the review.
C18_FixRequestSent ==
    p_pc = "Dfix" =>
        LET issues == critical_issues(review_result.parsed_output)
        IN /\ html_code \in Range(dev_request)
           /\ \A k \in 1..Len(issues) : FixLine(issues[k]) \in Range(dev_request)

\* the statuses the sink was told for one stage, in order
StatusesOf(name) ==
    LET told == SelectSeq(notified, LAMBDA n : n[1] = name)
    IN [k \in 1..Len(told) |-> told[k][2]]

\* C20: for every stage the statuses told to the sink follow waiting ->
\* running -> done or error only: running first, then at most one of done and
\* error, and nothing after that.
C20_StatusTransitions ==
    \A name \in AgentNames :
        LET s == StatusesOf(name)
        IN /\ Len(s) <= 2
           /\ Len(s) >= 1 => s[1] = "running"
           /\ Len(s) = 2 => s[2] \in {"done", "error"}

\* C20 (amended): for every stage the statuses told to the sink start with
\* running and alternate between running and one of done and error; nothing
\* is told for a stage after error; only the Developer is told running again
\* after done, once for each review that asked for a fix.
C20_StatusCycles ==
    \A name \in AgentNames :
        LET s == StatusesOf(name)
        IN /\ \A k \in 1..Len(s) :
                /\ k % 2 = 1 => s[k] = "running"
                /\ k % 2 = 0 => s[k] \in {"done", "error"}
                /\ s[k] = "error" => k = Len(s)
           /\ name # "Developer" => Len(s) <= 2
           /\ name = "Developer" =>
                Len(s) <= 2 + 2 * Cardinality({k \in 1..Len(verdicts) :
                                                 verdicts[k] = "fail_actionable"})

\* the Developer has been told running and done twice: once for its first
\* run and once for a fix
C20_Witness ==
    /\ StatusesOf("Developer") = <<"running", "done", "running", "done">>
    /\ invocations["Developer"] = 2
    /\ p_pc = "returned"
    /\ result.success

\* what the last reviewer.run came back with ("none" before the first)
LastVerdict == IF verdicts = <<>> THEN "none" ELSE verdicts[Len(verdicts)]

\* the loop was left after its last review without a further developer.run:
\* every earlier review led to one fix, the last one to none, and seo.run
\* was called next
LoopLeftForSEO ==
    /\ p_pc \in {"F", "returned"}
    /\ invocations["Reviewer"] = Len(verdicts)
    /\ invocations["Developer"] = Len(verdicts)
    /\ invocations["SEO Optimizer"] = 1

\* C21: when a reviewer.run returns success=False the Auto-Fix loop ends at
\* once without another developer.run, html_code stays the last successful
\* Developer output, and the run goes on to the SEO stage and returns
\* success=True.
C21_ReviewFailureEndsLoop ==
    LastVerdict = "error" =>
        /\ LoopLeftForSEO
        /\ p_pc = "F" => html_code = returns["Developer"].good
        /\ p_pc = "returned" =>
             /\ result.success
             /\ result.error = NoError
             /\ result.html_code = IF Failed("SEO Optimizer")
                                   THEN returns["Developer"].good
                                   ELSE returns["SEO Optimizer"].good

\* a finished run whose second review failed after one fix
C21_Witness ==
    /\ p_pc = "returned"
    /\ verdicts = <<"fail_actionable", "error">>
    /\ invocations["Developer"] = 2
    /\ result.success
    /\ result.fix_iterations = 1

\* C22: with the Auto-Fix loop enabled, for every max_fix_iterations
\* (0 included), once the first developer.run has succeeded the run goes on
\* to the SEO stage and is not marked failed.
C22_LoopAlwaysReachesSEO ==
    ( /\ p_pc = "returned"
      /\ auto_fix_enabled
      /\ returns["Developer"].good # NoneVal ) =>
        /\ invocations["SEO Optimizer"] = 1
        /\ result.success
        /\ result.error = NoError

\* the run was halted by a stage that returned success=False
HaltedByStage == p_pc = "returned" /\ result.error.kind = "stage_failed"

Succeeded(name) == returns[name].last = "ok"

\* C23: when a run halts at a failing stage, the PipelineResult carries the
\* artifact of every stage that succeeded before the halt, with success=False
\* and one error.
C23_ArtifactsOnHalt ==
    HaltedByStage =>
        /\ ~result.success
        /\ Succeeded("Strategist") => result.strategy = returns["Strategist"].good
        /\ Succeeded("Copywriter") => result.copy = returns["Copywriter"].good
        /\ Succeeded("Art Director") =>
             result.design_json = returns["Art Director"].good

\* C23 (amended): when a run halts at a failing stage, the PipelineResult
\* carries the strategy when the Strategist succeeded, and the copy and the
\* design when both fan-out Agents succeeded (the halt is at the Developer);
\* when one fan-out Agent failed, neither the copy nor the design is carried,
\* whatever the other returned. success is False and the error names the
\* failing stage.
C23_ArtifactsOfCompletedSteps ==
    HaltedByStage =>
        /\ ~result.success
        /\ Failed(result.error.stage)
        /\ Succeeded("Strategist") => result.strategy = returns["Strategist"].good
        /\ IF Succeeded("Copywriter") /\ Succeeded("Art Director")
           THEN /\ result.copy = returns["Copywriter"].good
                /\ result.design_json = returns["Art Director"].good
                /\ result.error.stage = "Developer"
           ELSE /\ result.copy = NewPipelineResult.copy
                /\ result.design_json = NewPipelineResult.design_json

\* a run halted at the Developer carrying strategy, copy and design
C23_Witness ==
    /\ HaltedByStage
    /\ result.error.stage = "Developer"
    /\ result.strategy = Artifact("Strategist", 1)
    /\ result.copy = Artifact("Copywriter", 1)
    /\ result.design_json = Artifact("Art Director", 1)

\* the names of the stage entries of the PipelineResult, in order
StageNames == [k \in 1..Len(result.stages) |-> result.stages[k].name]

\* C24: when a run halts because an Agent returned success=False, the stage
\* list of the PipelineResult holds every stage that completed before the
\* halt, in execution order.
C24_StagesOnHalt ==
    HaltedByStage =>
        /\ result.stages = stages
        /\ Succeeded("Strategist") =>
             Len(StageNames) >= 1 /\ StageNames[1] = "Strategist"
        /\ result.error.stage = "Developer" =>
             StageNames = <<"Strategist", "Copywriter", "Art Director">>

\* C29: in every reachable state and in every returned PipelineResult, the
\* iteration count of the Auto-Fix loop is between 0 and max_fix_iterations.
C29_IterationCountBounded ==
    /\ result.fix_iterations \in 0..max_fix_iterations
    /\ fix_iteration \in 0..max_fix_iterations
    /\ result.fix_iterations <= Len(verdicts)

\* a finished run whose loop used every iteration
C29_Witness ==
    /\ p_pc = "returned"
    /\ max_fix_iterations >= 2
    /\ result.fix_iterations = max_fix_iterations
    /\ Reinvocations = max_fix_iterations

\* C30: when a review says fail while none of its issues is critical or a
\* warning (only informational ones, or none), the loop ends without another
\* developer.run and the run goes on to the SEO stage.
C30_NoActionableEndsLoop ==
    LastVerdict = "fail_other" => LoopLeftForSEO

\* a finished run whose second review failed with an informational issue only
C30_Witness ==
    /\ p_pc = "returned"
    /\ verdicts = <<"fail_actionable", "fail_other">>
    /\ ~result.review_report.pass
    /\ result.review_report.issues = <<Issue("info")>>
    /\ invocations["Developer"] = 2

(***************************************************************************)
(* A further property of BaseAgent.run (under AgentSpec)                   *)
(***************************************************************************)
\* C19: a provider call that has not come back when timeout_seconds have
\* elapsed is ended and handled as a failed attempt, so run is never left
\* waiting on a call that is past its timeout.
C19_TimeoutEndsCall ==
    a_pc # "overdue"


\* the attempt of event i of the call ended in failure
FailureAt(i) ==
    IF a_history[i].ev = "response" THEN ~a_history[i].is_valid
    ELSE a_history[i].ev \in {"fail", "raise"}

\* min(2^k, 8) written out
ExpectedWait(k) == IF k >= 3 THEN 8 ELSE IF k = 2 THEN 4 ELSE 2

\* the attempt numbers for which the wait is computed on its own, past the
\* point where 2^k exceeds the cap of 8
MaxWaitAttempt == 6

\* C26: after attempt k < max_retries fails (provider failure or validation
\* failure), run sleeps exactly min(2^k, 8) seconds and then starts attempt
\* k+1; it never sleeps after attempt max_retries or after a success.
C26_BackoffSchedule ==
    /\ \A k \in 1..MaxWaitAttempt : Backoff(k) = ExpectedWait(k)
    /\ \A i \in 1..Len(a_history) :
           LET e == a_history[i]
           IN /\ FailureAt(i) =>
                   IF e.attempt < max_retries
                   THEN /\ i < Len(a_history)
                        /\ a_history[i + 1] = [ev |-> "sleep", attempt |-> e.attempt,
                                               seconds |-> ExpectedWait(e.attempt)]
                        /\ i + 2 <= Len(a_history) =>
                             /\ a_history[i + 2].ev \in {"progress", "call"}
                             /\ a_history[i + 2].attempt = e.attempt + 1
                   ELSE i = Len(a_history)
              /\ (e.ev = "response" /\ ~FailureAt(i)) => i = Len(a_history)
              /\ e.ev = "sleep" =>
                   /\ i > 1
                   /\ FailureAt(i - 1)
                   /\ a_history[i - 1].attempt = e.attempt
                   /\ e.attempt < max_retries

\* a call of three attempts that slept 2 s after a provider failure and 4 s
\* after a validation failure, and not after the third failure
C26_Witness ==
    /\ a_pc = "returned"
    /\ max_retries = 3
    /\ Len(EventsOf(a_history, "sleep")) = 2
    /\ EventsOf(a_history, "sleep")[1].seconds = 2
    /\ EventsOf(a_history, "sleep")[2].seconds = 4
    /\ Len(Fails) = 2
    /\ Len(Responses) = 1
    /\ a_history[Len(a_history)].ev = "fail"

\* C27: a parser failure never ends or fails an attempt by itself: the raw
\* response text becomes the parsed value, the validator is applied to it,
\* and the validator's verdict decides the attempt (retry with feedback,
\* final validation failure, or success).
C27_ParseFallback ==
    \A i \in 1..Len(a_history) :
        LET e == a_history[i]
        IN (e.ev = "response" /\ ParseRaises(agent_class, e.response.text)) =>
             LET v == validate_output(agent_class, StrVal(e.response.text))
             IN /\ e.parsed = StrVal(e.response.text)
                /\ e.is_valid = v.is_valid
                /\ e.error_msg = v.error_msg
                /\ (v.is_valid /\ a_pc = "returned") =>
                     agent_result.success /\ agent_result.attempts = e.attempt
                /\ (~v.is_valid /\ e.attempt < max_retries) =>
                     /\ a_history[i + 1].ev = "sleep"
                     /\ v.error_msg \in Range(user_prompt)
                /\ (~v.is_valid /\ e.attempt = max_retries) =>
                     /\ a_pc = "returned"
                     /\ agent_result.error = [kind |-> "validation",
                                              msg |-> v.error_msg]
                     /\ agent_result.parsed_output = StrVal(e.response.text)
                     /\ agent_result.raw_text = e.response.text

\* a Reviewer whose last attempt returned text that json.loads rejects
C27_Witness ==
    /\ a_pc = "returned"
    /\ agent_class = "Reviewer"
    /\ max_retries >= 2
    /\ Len(Responses) > 0
    /\ Responses[Len(Responses)].response.text = "not json"
    /\ Responses[Len(Responses)].attempt = max_retries
    /\ agent_result.parsed_output = StrVal("not json")
    /\ agent_result.error.kind = "validation"


\* what the provider did in the call, in order: each reply is a failure or
\* a response
Replies ==
    SelectSeq(a_history, LAMBDA e : e.ev \in {"fail", "response"})

\* run as a function of the provider's replies alone: the provider calls it
\* makes and the AgentResult it returns for Agent class cls with n attempts,
\* from attempt k with prompt p and totals t; no observer takes part
RECURSIVE Replay(_, _, _, _, _, _)
Replay(cls, n, replies, k, p, t) ==
    LET e == Head(replies)
        call == [ev |-> "call", attempt |-> k, user_input |-> p]
        t2 == [tin |-> t.tin + e.response.input_tokens,
               tout |-> t.tout + e.response.output_tokens,
               cost |-> t.cost + e.response.cost_usd,
               latency |-> t.latency + e.response.latency_ms]
        parsed == ParseOrFallback(cls, e.response.text)
        v == validate_output(cls, parsed)
        rest(p2, t3) == Replay(cls, n, Tail(replies), k + 1, p2, t3)
    IN IF e.ev = "fail"
       THEN IF k < n
            THEN [calls |-> << call >> \o rest(p, t).calls,
                  result |-> rest(p, t).result]
            ELSE [calls |-> << call >>,
                  result |-> AgentResult("", NoneVal, FALSE,
                                 [kind |-> "exhausted", max_retries |-> n,
                                  last_error |-> [kind |-> "exception",
                                                  msg |-> "provider raised"]],
                                 n, t.tin, t.tout, t.cost, t.latency)]
       ELSE IF v.is_valid
            THEN [calls |-> << call >>,
                  result |-> AgentResult(e.response.text, parsed, TRUE, NoError, k,
                                 t2.tin, t2.tout, t2.cost, t2.latency)]
            ELSE IF k < n
                 THEN [calls |-> << call >>
                                 \o rest(FeedbackPrompt(p, v.error_msg), t2).calls,
                       result |-> rest(FeedbackPrompt(p, v.error_msg), t2).result]
                 ELSE [calls |-> << call >>,
                       result |-> AgentResult(e.response.text, parsed, FALSE,
                                      [kind |-> "validation", msg |-> v.error_msg],
                                      k, t2.tin, t2.tout, t2.cost, t2.latency)]

\* the attempts the call has started
AttemptsStarted == IF a_pc = "loop" THEN attempt - 1 ELSE attempt

\* C28: with an observer, run emits exactly one progress notification per
\* attempt, before that attempt's provider call and in increasing attempt
\* order; without one it emits none, and the provider calls and the returned
\* AgentResult are those of a call whose observer returns normally, namely
\* the ones the provider's replies alone determine.
C28_ProgressPerAttempt ==
    LET notes == EventsOf(a_history, "progress")
    IN /\ on_progress =>
            /\ Len(notes) = AttemptsStarted
            /\ \A j \in 1..Len(notes) :
                   notes[j] = [ev |-> "progress", attempt |-> j, of |-> max_retries]
            /\ \A i \in 1..Len(a_history) :
                   a_history[i].ev = "call" =>
                       /\ i > 1
                       /\ a_history[i - 1].ev = "progress"
                       /\ a_history[i - 1].attempt = a_history[i].attempt
       /\ ~on_progress => notes = <<>>
       /\ (a_pc = "returned" /\ Raises = <<>>) =>
            LET expected ==
                    Replay(agent_class, max_retries, Replies, 1,
                           build_user_prompt(agent_class, user_input, kwargs),
                           [tin |-> 0, tout |-> 0, cost |-> 0, latency |-> 0])
            IN /\ Calls = expected.calls
               /\ agent_result = expected.result

\* a call with an observer that was notified of attempts 1, 2 and 3 and
\* returned after the third
C28_Witness ==
    /\ a_pc = "returned"
    /\ on_progress
    /\ Raises = <<>>
    /\ Len(EventsOf(a_history, "progress")) = 3
    /\ Len(Calls) = 3
    /\ Len(Responses) >= 1
    /\ Len(Fails) >= 1


(***************************************************************************)
(* Properties of the project storage (under StorageSpec)                   *)
(***************************************************************************)
\* the map the files stand for: what load_project returns for each id
Stored ==
    [id \in {i \in ProjectIds : load_project(files, i) # NoneVal} |->
        load_project(files, id)]

\* C25: the storage behaves as a map from id to project: load_project
\* returns the last project saved under the id with every field equal, or
\* None when none was saved or it was deleted; delete_project returns True
\* exactly when the id was present, removes that project only, and on False
\* leaves every project as it was.
C25_StorageIsAMap ==
    /\ Stored = saved
    /\ last_op.op = "load" =>
         last_op.ret = IF last_op.id \in DOMAIN saved
                       THEN saved[last_op.id] ELSE NoneVal
    /\ last_op.op = "save" =>
         saved = MapSet(last_op.before, last_op.id, saved[last_op.id])
    /\ last_op.op = "delete" =>
         /\ last_op.ret = (last_op.id \in DOMAIN last_op.before)
         /\ Stored = MapDel(last_op.before, last_op.id)
         /\ ~last_op.ret => Stored = last_op.before

\* a load that returned the rebuilt page saved over the first one, with its
\* review report and design, while another project is stored beside it
C25_Witness ==
    /\ last_op.op = "load"
    /\ last_op.ret # NoneVal
    /\ last_op.ret.html_code = StrVal("<html>v2</html>")
    /\ last_op.ret.review_report # NoneVal
    /\ last_op.ret.design_json # DictVal(EmptyMap)
    /\ Cardinality(DOMAIN saved) >= 2


(***************************************************************************)
(* Properties of the Auto-Fix loop and of the stage reports (under Spec)   *)
(***************************************************************************)
\* C31: when the developer.run of a fix returns, html_code becomes its output
\* if it succeeded and stays as it was otherwise; either way the loop goes on
\* to a new reviewer.run when iterations remain (and to the SEO stage when
\* not), and a failed fix never fails the run.
C31_FixOutcome ==
    /\ [][ (p_pc = "Dfix" /\ p_pc' # "Dfix") =>
             /\ html_code' = IF returns'["Developer"].last = "ok"
                             THEN returns'["Developer"].good
                             ELSE html_code
             /\ returns'["Developer"].last = "ok" =>
                  html_code' = Artifact("Developer", invocations["Developer"])
             /\ IF fix_iteration + 1 < max_fix_iterations
                THEN /\ p_pc' = "E"
                     /\ invocations'["Reviewer"] = invocations["Reviewer"] + 1
                     /\ running' = {"Reviewer"}
                ELSE p_pc' = "F"
             /\ result'.error = NoError
             /\ raised' = NoError ]_p_pc
    /\ [](p_pc = "returned" /\ invocations["Developer"] >= 2 => result.success)

\* a failed fix after which the loop went on to the second review with the
\* first Developer output still current
C31_Witness ==
    /\ p_pc = "E"
    /\ invocations["Developer"] = 2
    /\ Failed("Developer")
    /\ html_code = Artifact("Developer", 1)
    /\ invocations["Reviewer"] = 2
    /\ "Reviewer" \in running


\* C32: at every moment the Agents executing are none, one, or some of the
\* Copywriter and the Art Director: the Strategist has returned before either
\* of them starts, and the Reviewer and the Developer never execute together.
C32_SequentialButFanout ==
    /\ Cardinality(running) <= 1 \/ running \subseteq {"Copywriter", "Art Director"}
    /\ \A name \in {"Copywriter", "Art Director"} :
           (name \in running \/ invocations[name] > 0) =>
               /\ "Strategist" \notin running
               /\ returns["Strategist"].last = "ok"
    /\ ~({"Reviewer", "Developer"} \subseteq running)
    /\ "Developer" \in running => p_pc \in {"D", "Dfix"}
    /\ "Reviewer" \in running => p_pc = "E"

\* both fan-out Agents executing at once, after the Strategist returned
C32_Witness ==
    /\ running = {"Copywriter", "Art Director"}
    /\ returns["Strategist"].last = "ok"
    /\ invocations["Strategist"] = 1


(***************************************************************************)
(* A property of the Gemini rate limiter (under GeminiSpec)                *)
(***************************************************************************)
\* C33: any two remote requests issued through the Gemini provider in one
\* process start at least MIN_INTERVAL_SECONDS apart, also when the two
\* fan-out threads call generate concurrently.
C33_RequestsSpaced ==
    \A i, j \in 1..Len(request_starts) :
        i < j => request_starts[j] - request_starts[i] >= MIN_INTERVAL_SECONDS


(***************************************************************************)
(* Properties of the stage reports of BuildPipeline.run (under Spec)       *)
(***************************************************************************)
\* the last status the sink was told for a stage ("waiting" if none)
LastStatus(name) ==
    IF StatusesOf(name) = <<>> THEN "waiting"
    ELSE StatusesOf(name)[Len(StatusesOf(name))]

\* C34: every stage the sink was told is running has been told done or
\* error by the time run returns, on successful runs, on runs halted by a
\* failing stage (the sibling of a failed fan-out stage included) and on runs
\* ended by a caught exception.
C34_RunningStagesClosed ==
    p_pc = "returned" =>
        \A name \in AgentNames : LastStatus(name) # "running"


\* the stages of a successful run, in order
ExecutedStages ==
    << "Strategist", "Copywriter", "Art Director", "Developer" >>
    \o (IF auto_fix_enabled THEN << "Reviewer" >> ELSE << >>)
    \o << "SEO Optimizer" >>

\* C35: on every successful run result.stages holds exactly one entry per
\* executed stage in the order Strategist, Copywriter, Art Director,
\* Developer, Reviewer (exactly when the Auto-Fix loop is enabled), SEO
\* Optimizer, however many fix iterations ran; and each entry's status is the
\* last status the sink was told for that stage.
C35_StageEntries ==
    (p_pc = "returned" /\ result.success) =>
        /\ [k \in 1..Len(result.stages) |-> result.stages[k].name] = ExecutedStages
        /\ \A k \in 1..Len(result.stages) :
               result.stages[k].status = LastStatus(result.stages[k].name)

\* the first half of C35 alone
C35_OneEntryPerStage ==
    (p_pc = "returned" /\ result.success) =>
        [k \in 1..Len(result.stages) |-> result.stages[k].name] = ExecutedStages


(***************************************************************************)
(* Further properties of BaseAgent.run (under AgentSpec)                   *)
(***************************************************************************)
\* C36: run returns success=True only if validate_output accepted the parsed
\* value of the attempt it returns; then the error is None and parsed_output
\* and raw_text are those of that accepted attempt.
C36_SuccessMeansValidated ==
    (a_pc = "returned" /\ agent_result.success) =>
        LET e == a_history[Len(a_history)]
        IN /\ e.ev = "response"
           /\ e.attempt = agent_result.attempts
           /\ e.is_valid
           /\ validate_output(agent_class, agent_result.parsed_output).is_valid
           /\ agent_result.error = NoError
           /\ agent_result.parsed_output = e.parsed
           /\ agent_result.parsed_output = parse_output(agent_class, e.response.text)
           /\ agent_result.raw_text = e.response.text

\* a Reviewer run that succeeded on its second attempt after a first reply
\* the validator rejected
C36_Witness ==
    /\ a_pc = "returned"
    /\ agent_class = "Reviewer"
    /\ agent_result.success
    /\ agent_result.attempts = 2
    /\ Len(Responses) = 2
    /\ ~Responses[1].is_valid
    /\ agent_result.raw_text = Responses[2].response.text


(***************************************************************************)
(* A further property of BuildPipeline.run in any environment (FaultSpec)  *)
(***************************************************************************)
\* the text result.error holds: None, f"{name} failed: {error}" after a failed
\* stage, str(e) after an exception; TRUE when that text is a non-empty string
ErrorTextNonEmpty(error) ==
    CASE error.kind = "None" -> FALSE
      [] error.kind = "stage_failed" -> TRUE
      [] OTHER -> error.msg # ""

\* C37: every PipelineResult run returns has success=True exactly when its
\* error is None, and one with success=False carries a non-empty error and an
\* empty html_code.
C37_SuccessIffNoError ==
    p_pc = "returned" =>
        /\ result.success <=> result.error = NoError
        /\ ~result.success =>
             /\ ErrorTextNonEmpty(result.error)
             /\ result.html_code = NewPipelineResult.html_code


\* the validation reasons of the attempts before attempt k, each in the
\* feedback text that carries it, in attempt order
RECURSIVE ReasonsBefore(_, _)
ReasonsBefore(responses, k) ==
    IF responses = <<>> THEN <<>>
    ELSE LET e == Head(responses)
         IN (IF ~e.is_valid /\ e.attempt < k
             THEN << "CRITICAL: Your previous attempt had this issue: ", e.error_msg,
                     "Please fix this and try again. Follow the instructions exactly." >>
             ELSE <<>>)
            \o ReasonsBefore(Tail(responses), k)

\* s is the beginning of t
IsPrefix(s, t) == Len(s) <= Len(t) /\ SubSeq(t, 1, Len(s)) = s

\* C38: within one run the request payload only grows: the payload of attempt
\* k is the initial payload followed by the reasons of all validation
\* failures of attempts 1..k-1 in order, and an attempt that ends in a
\* provider failure leaves the payload as it was for the next attempt.
C38_PayloadGrows ==
    /\ \A i \in 1..Len(Calls) :
           /\ Calls[i].user_input =
                build_user_prompt(agent_class, user_input, kwargs)
                \o ReasonsBefore(Responses, Calls[i].attempt)
           /\ i > 1 =>
                /\ Calls[i - 1].attempt < Calls[i].attempt
                /\ IsPrefix(Calls[i - 1].user_input, Calls[i].user_input)
    /\ \A i \in 1..Len(a_history) :
           (a_history[i].ev = "fail" /\ a_history[i].attempt < max_retries) =>
               LET later == {j \in (i + 1)..Len(a_history) : a_history[j].ev = "call"}
               IN /\ a_history[i - 1].ev = "call"
                  /\ IF later = {}
                     THEN user_prompt = a_history[i - 1].user_input
                     ELSE \E j \in later :
                            /\ \A l \in later : j <= l
                            /\ a_history[j].attempt > a_history[i].attempt
                            /\ a_history[j].user_input = a_history[i - 1].user_input

\* a Reviewer run called as the pipeline calls it (html and design passed)
\* whose third payload carries the reasons of two different validation
\* failures, in order, after the review request and the design specification
C38_Witness ==
    /\ agent_class = "Reviewer"
    /\ kwargs.html # NotGiven
    /\ Truthy(KwargsGet(kwargs.design, NoDict, [type |-> "dict", keys |-> {}]))
    /\ Len(Calls) = 3
    /\ Len(Responses) >= 2
    /\ ~Responses[1].is_valid
    /\ ~Responses[2].is_valid
    /\ Responses[1].error_msg # Responses[2].error_msg
    /\ Len(Calls[1].user_input) = 5
    /\ Len(Calls[3].user_input) = 11


(***************************************************************************)
(* Further properties of the Auto-Fix loop (under Spec)                    *)
(***************************************************************************)
\* the loop made a fix in each of its max_fix_iterations iterations
LoopExhausted ==
    /\ p_pc \in {"F", "returned"}
    /\ max_fix_iterations >= 1
    /\ Reinvocations = max_fix_iterations

\* C39: every developer.run of a fix follows its own reviewer.run, and the
\* loop ends right after the last fix: when the loop is exhausted no
\* reviewer.run follows the last fix, so result.review_report is the report
\* made before that fix and the last Developer output was never reviewed.
C39_LastFixUnreviewed ==
    /\ [](p_pc = "Dfix" =>
            /\ invocations["Reviewer"] = invocations["Developer"] - 1
            /\ LastVerdict = "fail_actionable"
            /\ result.review_report = review_result.parsed_output)
    /\ [][ (p_pc = "Dfix" /\ fix_iteration + 1 >= max_fix_iterations) =>
             /\ p_pc' = "F"
             /\ invocations'["Reviewer"] = invocations["Reviewer"]
             /\ result'.review_report = result.review_report
             /\ returns'["Developer"].last = "ok" =>
                  /\ html_code' = Artifact("Developer", invocations["Developer"])
                  /\ html_code' # html_code ]_p_pc
    /\ [](LoopExhausted =>
            /\ invocations["Reviewer"] = max_fix_iterations
            /\ Len(verdicts) = max_fix_iterations
            /\ LastVerdict = "fail_actionable"
            /\ result.review_report = review_result.parsed_output
            /\ ~result.review_report.pass
            /\ result.fix_iterations = max_fix_iterations)

\* a finished run that used both of its two iterations: two reviews, two
\* fixes, the second fix adopted and the report still the failing one
C39_Witness ==
    /\ p_pc = "returned"
    /\ max_fix_iterations = 2
    /\ invocations["Developer"] = 3
    /\ invocations["Reviewer"] = 2
    /\ returns["Developer"] = [last |-> "ok", good |-> Artifact("Developer", 3)]
    /\ ~result.review_report.pass
    /\ result.success


(***************************************************************************)
(* Termination and resource bounds                                         *)
(***************************************************************************)
\* a pipeline run or an Agent run in which every step that can be taken is
\* eventually taken: the threads are scheduled, and every provider call and
\* every Agent run comes back (by returning or by failing)
TerminationInit == Init \/ AgentInit

TerminationNext == Next \/ AgentNext

\* where a pipeline run and an Agent run stand; every step of Next changes
\* the first and every step of AgentNext the second
pipeline_pos == << p_pc, copy_task.state, design_task.state >>
agent_pos == << a_pc, attempt >>

TerminationSpec ==
    /\ TerminationInit
    /\ [][TerminationNext]_vars
    /\ WF_pipeline_pos(Next)
    /\ WF_agent_pos(AgentNext)

\* the Agent invocations of the run
TotalInvocations ==
    invocations["Strategist"] + invocations["Copywriter"]
    + invocations["Art Director"] + invocations["Developer"]
    + invocations["Reviewer"] + invocations["SEO Optimizer"]

\* C40: if every provider call returns or fails, run always terminates,
\* having made at most 5 + 2 * max_fix_iterations Agent invocations (the
\* Strategist, Copywriter, Art Director, Developer and SEO Optimizer once, at
\* most max_fix_iterations reviews and as many fixes), each of which makes at
\* most max_retries provider calls.
C40_TerminatesWithinBounds ==
    /\ <>(p_pc = "returned" \/ a_pc = "returned")
    /\ [](/\ TotalInvocations <= 5 + 2 * max_fix_iterations
          /\ \A name \in {"Strategist", "Copywriter", "Art Director", "SEO Optimizer"} :
                 invocations[name] <= 1
          /\ invocations["Reviewer"] <= max_fix_iterations
          /\ invocations["Developer"] <= 1 + max_fix_iterations)
    /\ [](/\ Len(Calls) <= max_retries
          /\ attempt <= max_retries)

\* a finished run that made every invocation the bound allows, and an Agent
\* run that returned after max_retries provider calls
C40_Witness ==
    \/ /\ p_pc = "returned"
       /\ max_fix_iterations = 2
       /\ TotalInvocations = 5 + 2 * max_fix_iterations
    \/ /\ a_pc = "returned"
       /\ max_retries = 3
       /\ Len(Calls) = max_retries

=============================================================================
